---- MODULE Spec2Model ----
(***************************************************************************)
(* Model of reactphysics3d's sequential-impulse contact solver             *)
(* (src/src/engine/ContactSolver.cpp).                                     *)
(*                                                                         *)
(* The `decimal` scalars of the source are modelled as exact rationals     *)
(* <<numerator, denominator>> in lowest terms; vectors are triples of      *)
(* rationals and matrices triples of row vectors.  The inputs are chosen   *)
(* so that every square root the code takes is rational.                   *)
(***************************************************************************)
EXTENDS Integers, Sequences, FiniteSets, TLC

(***************************************************************************)
(* Values computed once and used several times are bound to the parameter  *)
(* of an operator.                                                         *)
(***************************************************************************)
With(e, F(_)) == CHOOSE r \in {F(x) : x \in {e}} : TRUE
With2(e1, e2, F(_, _)) ==
    CHOOSE r \in {F(x[1], x[2]) : x \in {<<e1, e2>>}} : TRUE
With3(e1, e2, e3, F(_, _, _)) ==
    CHOOSE r \in {F(x[1], x[2], x[3]) : x \in {<<e1, e2, e3>>}} : TRUE
With4(e1, e2, e3, e4, F(_, _, _, _)) ==
    CHOOSE r \in {F(x[1], x[2], x[3], x[4]) : x \in {<<e1, e2, e3, e4>>}} : TRUE

(***************************************************************************)
(* Scalar arithmetic (decimal)                                             *)
(***************************************************************************)
Abs(n) == IF n < 0 THEN -n ELSE n

RECURSIVE GCD(_, _)
GCD(a, b) == IF b = 0 THEN a ELSE GCD(b, a % b)

\* n / d in lowest terms with a positive denominator
Rat(n, d) ==
    With(GCD(Abs(n), Abs(d)),
         LAMBDA g : IF d < 0 THEN <<(-n) \div g, (-d) \div g>> ELSE <<n \div g, d \div g>>)

Zero == <<0, 1>>
One == <<1, 1>>

\* the operands are in lowest terms; common factors are taken out before the
\* products are formed, so that the intermediate integers stay small
RAdd(a, b) ==
    IF a[1] = 0 THEN b
    ELSE IF b[1] = 0 THEN a
    ELSE With(GCD(a[2], b[2]),
              LAMBDA g : Rat(a[1] * (b[2] \div g) + b[1] * (a[2] \div g),
                             (a[2] \div g) * b[2]))
RNeg(a) == <<-a[1], a[2]>>
RSub(a, b) == RAdd(a, RNeg(b))
RMul(a, b) ==
    IF a[1] = 0 \/ b[1] = 0 THEN Zero
    ELSE With2(GCD(Abs(a[1]), b[2]), GCD(Abs(b[1]), a[2]),
               LAMBDA g1, g2 : <<(a[1] \div g1) * (b[1] \div g2),
                                 (a[2] \div g2) * (b[2] \div g1)>>)
RDiv(a, b) == RMul(a, Rat(b[2], b[1]))
RLt(a, b) ==
    IF a[2] = b[2] THEN a[1] < b[1]
    ELSE With(GCD(a[2], b[2]), LAMBDA g : a[1] * (b[2] \div g) < b[1] * (a[2] \div g))
RLe(a, b) == ~RLt(b, a)
RMax(a, b) == IF RLt(a, b) THEN b ELSE a
RMin(a, b) == IF RLt(b, a) THEN b ELSE a
RAbs(a) == <<Abs(a[1]), a[2]>>

\* floor(sqrt(n)) for 0 <= n < 2^31, found in two steps of base SqrtRadix
SqrtRadix == 256
MaxSqrt == 46340
ISqrtHigh(n) ==
    CHOOSE h \in 0..(MaxSqrt \div SqrtRadix) :
        /\ (h * SqrtRadix) * (h * SqrtRadix) <= n
        /\ \/ (h + 1) * SqrtRadix > MaxSqrt
           \/ ((h + 1) * SqrtRadix) * ((h + 1) * SqrtRadix) > n
ISqrtFrom(n, base) ==
    CHOOSE r \in base..(base + SqrtRadix - 1) :
        /\ r <= MaxSqrt
        /\ r * r <= n
        /\ (r = MaxSqrt \/ (r + 1) * (r + 1) > n)
ISqrt(n) == With(ISqrtHigh(n), LAMBDA high : ISqrtFrom(n, high * SqrtRadix))
IsSquare(n) == With(ISqrt(n), LAMBDA r : r * r = n)

\* sqrt() of a rational whose root is rational
HasRSqrt(a) == a[1] >= 0 /\ IsSquare(a[1]) /\ IsSquare(a[2])
RSqrt(a) == <<ISqrt(a[1]), ISqrt(a[2])>>

(***************************************************************************)
(* Vector3 and Matrix3x3                                                   *)
(***************************************************************************)
Vec(x, y, z) == <<<<x, 1>>, <<y, 1>>, <<z, 1>>>>
VZero == <<Zero, Zero, Zero>>
\* the vector with the coordinates f[1], f[2], f[3]
Vector3(f) == <<f[1], f[2], f[3]>>
VAdd(a, b) == Vector3([x \in 1..3 |-> RAdd(a[x], b[x])])
VNeg(a) == <<RNeg(a[1]), RNeg(a[2]), RNeg(a[3])>>
VSub(a, b) == VAdd(a, VNeg(b))
VScale(a, s) == Vector3([x \in 1..3 |-> RMul(a[x], s)])
VDivS(a, s) == With(Rat(s[2], s[1]), LAMBDA inverse : VScale(a, inverse))
VDot(a, b) ==
    With([x \in 1..3 |-> RMul(a[x], b[x])],
         LAMBDA p : With(RAdd(p[1], p[2]), LAMBDA q : RAdd(q, p[3])))
VCross(a, b) ==
    Vector3([x \in 1..3 |->
                RSub(RMul(a[(x % 3) + 1], b[((x + 1) % 3) + 1]),
                     RMul(a[((x + 1) % 3) + 1], b[(x % 3) + 1]))])
VLengthSquare(a) == VDot(a, a)
HasVLength(a) == With(VLengthSquare(a), LAMBDA lengthSquare : HasRSqrt(lengthSquare))
VLength(a) == With(VLengthSquare(a), LAMBDA lengthSquare : RSqrt(lengthSquare))

MZero == <<VZero, VZero, VZero>>
MIdentity == <<Vec(1, 0, 0), Vec(0, 1, 0), Vec(0, 0, 1)>>
MAdd(A, B) == Vector3([x \in 1..3 |-> VAdd(A[x], B[x])])
MVec(A, v) == Vector3([x \in 1..3 |-> VDot(A[x], v)])
MDeterminant(A) == VDot(A[1], VCross(A[2], A[3]))
\* the inverse of a matrix: the transposed cofactors over the determinant
MInverse(A) ==
    With2(Rat(MDeterminant(A)[2], MDeterminant(A)[1]),
          [x \in 1..3 |-> VCross(A[(x % 3) + 1], A[((x + 1) % 3) + 1])],
          LAMBDA inverseDeterminant, c :
              Vector3([x \in 1..3 |->
                          VScale(<<c[1][x], c[2][x], c[3][x]>>, inverseDeterminant)]))

(***************************************************************************)
(* Program constants                                                       *)
(***************************************************************************)
BETA == Rat(1, 5)
BETA_SPLIT_IMPULSE == Rat(1, 5)
SLOP == Rat(1, 100)
\* set by the engine's configuration header
RESTITUTION_VELOCITY_THRESHOLD == Rat(1, 1)
MACHINE_EPSILON == Rat(1, 65536)

\* A pointer to an array: the null pointer, or the elements of the array
nullptr == [isNull |-> TRUE, elems |-> <<>>]
Array(elems) == [isNull |-> FALSE, elems |-> elems]

(***************************************************************************)
(* The external world the solver is run on: rigid bodies, contact points   *)
(* and contact manifolds produced by collision detection, and the islands  *)
(* handed to initializeForIsland.                                          *)
(***************************************************************************)
BodyIds == {"box", "ground", "kinematic", "stray", "crate"}

RigidBody(b) ==
    CASE b = "box" ->
           [mCenterOfMassWorld |-> Vec(0, 1, 0), mMassInverse |-> One,
            inertiaTensorInverseWorld |-> MIdentity, type |-> "DYNAMIC"]
      [] b = "ground" ->
           [mCenterOfMassWorld |-> Vec(0, 0, 0), mMassInverse |-> Zero,
            inertiaTensorInverseWorld |-> MZero, type |-> "STATIC"]
      [] b = "kinematic" ->
           [mCenterOfMassWorld |-> Vec(3, 1, 0), mMassInverse |-> Zero,
            inertiaTensorInverseWorld |-> MZero, type |-> "KINEMATIC"]
      [] b = "stray" ->
           [mCenterOfMassWorld |-> Vec(6, 1, 0), mMassInverse |-> One,
            inertiaTensorInverseWorld |-> MIdentity, type |-> "DYNAMIC"]
      [] b = "crate" ->
           [mCenterOfMassWorld |-> Vec(0, 3, 0), mMassInverse |-> Rat(1, 2),
            inertiaTensorInverseWorld |-> MIdentity, type |-> "DYNAMIC"]

\* mMapBodyToConstrainedVelocityIndex: "stray" is a body the map does not hold
MappedBodies == {"box", "ground", "kinematic", "crate"}
mMapBodyToConstrainedVelocityIndex(b) ==
    CASE b = "box" -> 0 [] b = "ground" -> 1 [] b = "kinematic" -> 2 [] b = "crate" -> 3
VelocityIndices == {0, 1, 2, 3}

\* Material mixing rules of the engine (external hooks)
computeMixedRestitutionFactor(b1, b2) == Rat(1, 2)
computeMixedFrictionCoefficient(b1, b2) == Rat(1, 2)
computeMixedRollingResistance(b1, b2) ==
    IF b1 = "box" \/ b2 = "box" THEN Rat(1, 4) ELSE Zero

ContactPointIds ==
    {"c1", "c2", "c3", "c4", "c5", "c6", "c7", "c8", "c9",
     "c10", "c11", "c12", "c13", "c14"}

\* where the five contacts of the crowded manifold are
CrowdPoint(c) ==
    CASE c = "c10" -> Vec(0, 0, 0) [] c = "c11" -> Vec(1, 0, 0) [] c = "c12" -> Vec(-1, 0, 0)
      [] c = "c13" -> Vec(0, 0, 1) [] c = "c14" -> Vec(0, 0, -1)

\* Geometry of a contact point: bodies, world points, normal (body 1 towards
\* body 2) and penetration depth
ContactPoint(c) ==
    CASE c = "c1" ->
           [body1 |-> "box", body2 |-> "ground",
            worldPointOnBody1 |-> Vec(0, 0, 0), worldPointOnBody2 |-> Vec(0, 0, 0),
            normal |-> Vec(0, -1, 0), penetrationDepth |-> Rat(51, 100)]
      [] c = "c2" ->
           [body1 |-> "box", body2 |-> "ground",
            worldPointOnBody1 |-> Vec(1, 0, 0), worldPointOnBody2 |-> Vec(1, 0, 0),
            normal |-> Vec(0, -1, 0), penetrationDepth |-> Zero]
      [] c = "c3" ->
           [body1 |-> "kinematic", body2 |-> "ground",
            worldPointOnBody1 |-> Vec(3, 0, 0), worldPointOnBody2 |-> Vec(3, 0, 0),
            normal |-> Vec(0, -1, 0), penetrationDepth |-> Rat(51, 100)]
      [] c = "c4" ->
           [body1 |-> "stray", body2 |-> "ground",
            worldPointOnBody1 |-> Vec(6, 0, 0), worldPointOnBody2 |-> Vec(6, 0, 0),
            normal |-> Vec(0, -1, 0), penetrationDepth |-> Zero]
      \* a ball-like single contact under the center of mass of the box
      [] c = "c5" ->
           [body1 |-> "box", body2 |-> "ground",
            worldPointOnBody1 |-> Vec(0, 0, 0), worldPointOnBody2 |-> Vec(0, 0, 0),
            normal |-> Vec(0, -1, 0), penetrationDepth |-> Rat(51, 100)]
      \* the box against a plane whose contact normal is (0, 1, 0)
      [] c = "c6" ->
           [body1 |-> "box", body2 |-> "ground",
            worldPointOnBody1 |-> Vec(0, 0, 0), worldPointOnBody2 |-> Vec(0, 0, 0),
            normal |-> Vec(0, 1, 0), penetrationDepth |-> Rat(51, 100)]
      \* the crate resting on an edge of the box: two dynamic bodies
      [] c = "c7" ->
           [body1 |-> "crate", body2 |-> "box",
            worldPointOnBody1 |-> Vec(1, 2, 0), worldPointOnBody2 |-> Vec(1, 2, 0),
            normal |-> Vec(0, -1, 0), penetrationDepth |-> Zero]
      \* two contacts of one manifold with opposite normals
      [] c = "c8" ->
           [body1 |-> "box", body2 |-> "ground",
            worldPointOnBody1 |-> Vec(0, 0, 0), worldPointOnBody2 |-> Vec(0, 0, 0),
            normal |-> Vec(0, -1, 0), penetrationDepth |-> Zero]
      [] c = "c9" ->
           [body1 |-> "box", body2 |-> "ground",
            worldPointOnBody1 |-> Vec(1, 0, 0), worldPointOnBody2 |-> Vec(1, 0, 0),
            normal |-> Vec(0, 1, 0), penetrationDepth |-> Zero]
      \* five contacts of the box with the ground in one manifold
      [] c \in {"c10", "c11", "c12", "c13", "c14"} ->
           [body1 |-> "box", body2 |-> "ground",
            worldPointOnBody1 |-> CrowdPoint(c), worldPointOnBody2 |-> CrowdPoint(c),
            normal |-> Vec(0, -1, 0), penetrationDepth |-> Zero]

ManifoldIds ==
    {"mBox", "mKin", "mEmpty", "mStray", "mBall", "mSlide", "mStack", "mPinch", "mCrowd"}

\* The contact points of a manifold, in order
ManifoldPoints(m) ==
    CASE m = "mBox" -> <<"c1", "c2">>
      [] m = "mKin" -> <<"c3">>
      [] m = "mEmpty" -> <<>>
      [] m = "mStray" -> <<"c4">>
      [] m = "mBall" -> <<"c5">>
      [] m = "mSlide" -> <<"c6">>
      [] m = "mStack" -> <<"c7">>
      [] m = "mPinch" -> <<"c8", "c9">>
      [] m = "mCrowd" -> <<"c10", "c11", "c12", "c13", "c14">>

\* Islands handed to initializeForIsland; the invalid ones break a precondition
ValidIslands == {"iBox", "iKin", "iBoth", "iBall", "iSlide", "iStack", "iPinch", "iCrowd"}
InvalidIslands == {"iNull", "iNoBody", "iNoManifold", "iEmpty", "iBoxEmpty", "iStray"}
IslandIds == ValidIslands \cup InvalidIslands
Island(i) ==
    CASE i = "iBox" -> [isNull |-> FALSE, nbBodies |-> 2, contactManifolds |-> <<"mBox">>]
      [] i = "iKin" -> [isNull |-> FALSE, nbBodies |-> 2, contactManifolds |-> <<"mKin">>]
      [] i = "iBoth" ->
           [isNull |-> FALSE, nbBodies |-> 3, contactManifolds |-> <<"mBox", "mKin">>]
      [] i = "iNull" -> [isNull |-> TRUE, nbBodies |-> 0, contactManifolds |-> <<>>]
      [] i = "iNoBody" -> [isNull |-> FALSE, nbBodies |-> 0, contactManifolds |-> <<>>]
      [] i = "iNoManifold" -> [isNull |-> FALSE, nbBodies |-> 1, contactManifolds |-> <<>>]
      [] i = "iEmpty" -> [isNull |-> FALSE, nbBodies |-> 2, contactManifolds |-> <<"mEmpty">>]
      [] i = "iBoxEmpty" ->
           [isNull |-> FALSE, nbBodies |-> 2, contactManifolds |-> <<"mBox", "mEmpty">>]
      [] i = "iStray" -> [isNull |-> FALSE, nbBodies |-> 2, contactManifolds |-> <<"mStray">>]
      [] i = "iBall" -> [isNull |-> FALSE, nbBodies |-> 2, contactManifolds |-> <<"mBall">>]
      [] i = "iSlide" -> [isNull |-> FALSE, nbBodies |-> 2, contactManifolds |-> <<"mSlide">>]
      [] i = "iStack" -> [isNull |-> FALSE, nbBodies |-> 2, contactManifolds |-> <<"mStack">>]
      [] i = "iPinch" -> [isNull |-> FALSE, nbBodies |-> 2, contactManifolds |-> <<"mPinch">>]
      [] i = "iCrowd" -> [isNull |-> FALSE, nbBodies |-> 2, contactManifolds |-> <<"mCrowd">>]

TimeSteps == {Rat(1, 5), Zero, Rat(-1, 5)}

\* Velocities the integrator may hand over for the box (index 0); the
\* kinematic body (index 2) slides along x, the crate (index 3) falls, the
\* ground is at rest
BoxVelocities ==
    { [v |-> Vec(0, -2, 0), w |-> VZero],
      [v |-> Vec(1, -1, 0), w |-> VZero],
      [v |-> Vec(1, 0, 0), w |-> VZero],
      [v |-> Vec(1, -2, 5), w |-> Vec(0, 2, 2)] }
LinearBuffer(bv) == [i \in VelocityIndices |->
    IF i = 0 THEN bv.v
    ELSE IF i = 2 THEN Vec(1, 0, 0)
    ELSE IF i = 3 THEN Vec(0, -3, 0)
    ELSE VZero]
AngularBuffer(bv) == [i \in VelocityIndices |-> IF i = 0 THEN bv.w ELSE VZero]
ZeroBuffer == [i \in VelocityIndices |-> VZero]

\* What a scalar field of a freshly allocated record can hold before the
\* code assigns it
UninitializedDecimals == {Rat(-3, 1), Zero, Rat(2, 1)}

(***************************************************************************)
(* Vector3 helpers of the mathematics library                              *)
(***************************************************************************)
\* Vector3::normalize / Vector3::getUnit: a vector shorter than
\* MACHINE_EPSILON is left as it is
VGetUnit(a) ==
    With(VLength(a), LAMBDA l : IF RLt(l, MACHINE_EPSILON) THEN a ELSE VDivS(a, l))

\* Vector3::getMinAxis
VGetMinAxis(a) ==
    IF RLt(a[1], a[2]) THEN (IF RLt(a[1], a[3]) THEN 0 ELSE 2)
    ELSE (IF RLt(a[2], a[3]) THEN 1 ELSE 2)

\* The vector whose length Vector3::getOneUnitOrthogonalVector divides by
VOrthogonal(a) ==
    With(VGetMinAxis(<<RAbs(a[1]), RAbs(a[2]), RAbs(a[3])>>),
         LAMBDA minElement :
             IF minElement = 0 THEN <<Zero, RNeg(a[3]), a[2]>>
             ELSE IF minElement = 1 THEN <<RNeg(a[3]), Zero, a[1]>>
             ELSE <<RNeg(a[2]), a[1], Zero>>)

\* Vector3::getOneUnitOrthogonalVector
VGetOneUnitOrthogonalVector(a) ==
    With(VOrthogonal(a),
         LAMBDA orthogonal : With(VLength(orthogonal),
                                  LAMBDA length : VDivS(orthogonal, length)))

\* clamp(Vector3, decimal): every coordinate clamped to [-maxLength, maxLength]
ClampCoordinate(x, maxLength) == RMax(RNeg(maxLength), RMin(x, maxLength))
VClamp(a, maxLength) == Vector3([x \in 1..3 |-> ClampCoordinate(a[x], maxLength)])

(***************************************************************************)
(* ContactSolver::computeFrictionVectors                                   *)
(***************************************************************************)
TangentVelocity(deltaVelocity, normal) ==
    With(VDot(deltaVelocity, normal),
         LAMBDA normalVelocity : VSub(deltaVelocity, VScale(normal, normalVelocity)))

\* largest numerator or denominator of a vector whose length is taken
MaxExact == 4096

\* the square roots computeFrictionVectors takes are rational
FrictionVectorsExact(deltaVelocity, normal) ==
    With(TangentVelocity(deltaVelocity, normal),
         LAMBDA tangentVelocity :
             /\ \A x \in 1..3 : /\ Abs(tangentVelocity[x][1]) <= MaxExact
                                /\ tangentVelocity[x][2] <= MaxExact
             /\ HasVLength(tangentVelocity)
             /\ \/ RLt(MACHINE_EPSILON, VLength(tangentVelocity))
                \/ HasVLength(VOrthogonal(normal)))

MutFrictionVector2(normal, frictionVector1) == VGetUnit(VCross(frictionVector1, normal))

MutFrictionVector1(deltaVelocity, normal) ==
    With(TangentVelocity(deltaVelocity, normal),
         LAMBDA tangentVelocity :
             With(VLength(tangentVelocity),
                  LAMBDA lengthTangenVelocity :
                      IF RLt(MACHINE_EPSILON, lengthTangenVelocity)
                      THEN VNeg(VDivS(tangentVelocity, lengthTangenVelocity))
                      ELSE VGetOneUnitOrthogonalVector(normal)))

FrictionVector1(deltaVelocity, normal) ==
    With(TangentVelocity(deltaVelocity, normal),
         LAMBDA tangentVelocity :
             With(VLength(tangentVelocity),
                  LAMBDA lengthTangenVelocity :
                      IF RLt(MACHINE_EPSILON, lengthTangenVelocity)
                      THEN VDivS(tangentVelocity, lengthTangenVelocity)
                      ELSE VGetOneUnitOrthogonalVector(normal)))

FrictionVector2(normal, frictionVector1) == VGetUnit(VCross(normal, frictionVector1))

(***************************************************************************)
(* ContactSolver::initializeForIsland                                      *)
(***************************************************************************)
\* mMapBodyToConstrainedVelocityIndex.find(body)->second; for a body the map
\* does not hold, find() returns end() and the read yields whatever is there
BodyIndex(body, pastTheEnd) ==
    IF body \in MappedBodies THEN mMapBodyToConstrainedVelocityIndex(body) ELSE pastTheEnd

\* v2 + w2 x r2 - v1 - w1 x r1
DeltaV(v1, w1, v2, w2, r1, r2) ==
    VSub(VSub(VAdd(v2, VCross(w2, r2)), v1), VCross(w1, r1))

\* massInverseBody1 + massInverseBody2 + ((I1 (r1 x t)) x r1).t + ((I2 (r2 x t)) x r2).t
ConstraintMass(m1, m2, I1, I2, r1, r2, r1CrossT, r2CrossT, t) ==
    With2(MVec(I1, r1CrossT), MVec(I2, r2CrossT),
      LAMBDA angular1, angular2 :
      With2(VCross(angular1, r1), VCross(angular2, r2),
        LAMBDA cross1, cross2 :
        With2(VDot(cross1, t), VDot(cross2, t),
          LAMBDA k1, k2 : RAdd(RAdd(RAdd(m1, m2), k1), k2))))

\* mass > 0 ? field = 1 / mass : 0  -- the assignment is part of the second
\* operand only, so a non-positive mass leaves the field as allocated
InverseMass(mass, asAllocated) ==
    IF RLt(Zero, mass) THEN RDiv(One, mass) ELSE asAllocated

MutRestitutionBias(restitutionFactor, deltaVDotN) ==
    IF RLt(deltaVDotN, RNeg(RESTITUTION_VELOCITY_THRESHOLD)) THEN deltaVDotN ELSE Zero

RestitutionBias(restitutionFactor, deltaVDotN) ==
    IF RLt(deltaVDotN, RNeg(RESTITUTION_VELOCITY_THRESHOLD))
    THEN RMul(restitutionFactor, deltaVDotN)
    ELSE Zero

MutWarmStartingImpulse(warm, cached) == cached

\* the accumulated impulse a record starts with: the cached one if warm
\* starting is active, zero otherwise
WarmStartingImpulse(warm, cached) == IF warm THEN cached ELSE Zero

MutGetIsRestingContact(cache, c) == TRUE

\* externalContact->getIsRestingContact(), read before the flag is set
GetIsRestingContact(cache, c) == cache[c].isRestingContact

\* One pass of the loop over the contact points of a manifold
NewPenetrationConstraint(c, body1, body2, indexBody1, indexBody2, restitutionFactor, indexFrictionConstraint, lin, ang, warm, cache, asAllocated) ==
    With3(ContactPoint(c), RigidBody(body1), RigidBody(body2),
      LAMBDA externalContact, b1, b2 :
      With2(VSub(externalContact.worldPointOnBody1, b1.mCenterOfMassWorld),
            VSub(externalContact.worldPointOnBody2, b2.mCenterOfMassWorld),
        LAMBDA r1, r2 :
        With3(VCross(r1, externalContact.normal), VCross(r2, externalContact.normal),
              DeltaV(lin[indexBody1], ang[indexBody1], lin[indexBody2], ang[indexBody2],
                     r1, r2),
          LAMBDA r1CrossN, r2CrossN, deltaV :
            [indexBody1 |-> indexBody1, indexBody2 |-> indexBody2,
             inverseInertiaTensorBody1 |-> b1.inertiaTensorInverseWorld,
             inverseInertiaTensorBody2 |-> b2.inertiaTensorInverseWorld,
             massInverseBody1 |-> b1.mMassInverse, massInverseBody2 |-> b2.mMassInverse,
             restitutionFactor |-> restitutionFactor,
             indexFrictionConstraint |-> indexFrictionConstraint,
             contactPoint |-> c,
             r1 |-> r1, r2 |-> r2, normal |-> externalContact.normal,
             penetrationDepth |-> externalContact.penetrationDepth,
             isRestingContact |-> GetIsRestingContact(cache, c),
             r1CrossN |-> r1CrossN, r2CrossN |-> r2CrossN,
             inversePenetrationMass |->
                 InverseMass(ConstraintMass(b1.mMassInverse, b2.mMassInverse,
                                            b1.inertiaTensorInverseWorld,
                                            b2.inertiaTensorInverseWorld,
                                            r1, r2, r1CrossN, r2CrossN,
                                            externalContact.normal),
                             asAllocated),
             restitutionBias |->
                 RestitutionBias(restitutionFactor, VDot(deltaV, externalContact.normal)),
             penetrationImpulse |-> WarmStartingImpulse(warm, cache[c].penetrationImpulse),
             penetrationSplitImpulse |-> Zero])))

RECURSIVE VSum(_)
VSum(vs) == IF vs = <<>> THEN VZero ELSE VAdd(Head(vs), VSum(Tail(vs)))

\* The friction constraint of a manifold, up to the call of computeFrictionVectors
FrictionFrame(m, lin, ang, pastTheEnd) ==
    With3(ManifoldPoints(m),
          ContactPoint(ManifoldPoints(m)[1]).body1,
          ContactPoint(ManifoldPoints(m)[1]).body2,
      LAMBDA points, body1, body2 :
      With3(VDivS(VSum([k \in 1..Len(points) |-> ContactPoint(points[k]).worldPointOnBody1]),
                  Rat(Len(points), 1)),
            VDivS(VSum([k \in 1..Len(points) |-> ContactPoint(points[k]).worldPointOnBody2]),
                  Rat(Len(points), 1)),
            VSum([k \in 1..Len(points) |-> ContactPoint(points[k]).normal]),
        LAMBDA frictionPointBody1, frictionPointBody2, normalSum :
        With4(BodyIndex(body1, pastTheEnd), BodyIndex(body2, pastTheEnd),
              VSub(frictionPointBody1, RigidBody(body1).mCenterOfMassWorld),
              VSub(frictionPointBody2, RigidBody(body2).mCenterOfMassWorld),
          LAMBDA indexBody1, indexBody2, r1Friction, r2Friction :
            [body1 |-> body1, body2 |-> body2,
             indexBody1 |-> indexBody1, indexBody2 |-> indexBody2,
             frictionPointBody1 |-> frictionPointBody1,
             frictionPointBody2 |-> frictionPointBody2,
             r1Friction |-> r1Friction, r2Friction |-> r2Friction,
             normalSum |-> normalSum,
             exact |-> HasVLength(normalSum),
             normal |-> IF HasVLength(normalSum) THEN VGetUnit(normalSum) ELSE normalSum,
             deltaVFrictionPoint |->
                 DeltaV(lin[indexBody1], ang[indexBody1], lin[indexBody2], ang[indexBody2],
                        r1Friction, r2Friction)])))

\* the inverse K matrix of the rolling resistance constraint
InverseRollingResistance(rollingResistanceFactor, body1, body2) ==
    IF /\ RLt(Zero, rollingResistanceFactor)
       /\ (RigidBody(body1).type = "DYNAMIC" \/ RigidBody(body2).type = "DYNAMIC")
    THEN MInverse(MAdd(RigidBody(body1).inertiaTensorInverseWorld,
                       RigidBody(body2).inertiaTensorInverseWorld))
    ELSE MZero

\* The friction constraint of a manifold as initializeForIsland leaves it.
\* totalPenetrationImpulse is not assigned and, when warm starting is active,
\* rollingResistanceImpulse keeps the value of Vector3's default constructor.
NewFrictionConstraint(m, frame, hasAtLeastOneRestingContactPoint, warm, manifoldCache, massAsAllocated, totalAsAllocated) ==
    With3(RigidBody(frame.body1), RigidBody(frame.body2),
          FrictionVector1(frame.deltaVFrictionPoint, frame.normal),
      LAMBDA b1, b2, frictionVector1 :
      With(FrictionVector2(frame.normal, frictionVector1),
        LAMBDA frictionVector2 :
        With4(VCross(frame.r1Friction, frictionVector1),
              VCross(frame.r1Friction, frictionVector2),
              VCross(frame.r2Friction, frictionVector1),
              VCross(frame.r2Friction, frictionVector2),
          LAMBDA r1CrossT1, r1CrossT2, r2CrossT1, r2CrossT2 :
            [indexBody1 |-> frame.indexBody1, indexBody2 |-> frame.indexBody2,
             contactManifold |-> m,
             inverseInertiaTensorBody1 |-> b1.inertiaTensorInverseWorld,
             inverseInertiaTensorBody2 |-> b2.inertiaTensorInverseWorld,
             massInverseBody1 |-> b1.mMassInverse, massInverseBody2 |-> b2.mMassInverse,
             frictionCoefficient |->
                 computeMixedFrictionCoefficient(frame.body1, frame.body2),
             rollingResistanceFactor |->
                 computeMixedRollingResistance(frame.body1, frame.body2),
             hasAtLeastOneRestingContactPoint |-> hasAtLeastOneRestingContactPoint,
             frictionPointBody1 |-> frame.frictionPointBody1,
             frictionPointBody2 |-> frame.frictionPointBody2,
             normal |-> frame.normal,
             inverseRollingResistance |->
                 InverseRollingResistance(
                     computeMixedRollingResistance(frame.body1, frame.body2),
                     frame.body1, frame.body2),
             r1Friction |-> frame.r1Friction, r2Friction |-> frame.r2Friction,
             oldFrictionVector1 |-> manifoldCache[m].frictionVector1,
             oldFrictionVector2 |-> manifoldCache[m].frictionVector2,
             friction1Impulse |->
                 WarmStartingImpulse(warm, manifoldCache[m].frictionImpulse1),
             friction2Impulse |->
                 WarmStartingImpulse(warm, manifoldCache[m].frictionImpulse2),
             frictionTwistImpulse |->
                 WarmStartingImpulse(warm, manifoldCache[m].frictionTwistImpulse),
             rollingResistanceImpulse |-> VZero,
             frictionVector1 |-> frictionVector1, frictionVector2 |-> frictionVector2,
             r1CrossT1 |-> r1CrossT1, r1CrossT2 |-> r1CrossT2,
             r2CrossT1 |-> r2CrossT1, r2CrossT2 |-> r2CrossT2,
             inverseFriction1Mass |->
                 InverseMass(ConstraintMass(b1.mMassInverse, b2.mMassInverse,
                                            b1.inertiaTensorInverseWorld,
                                            b2.inertiaTensorInverseWorld,
                                            frame.r1Friction, frame.r2Friction,
                                            r1CrossT1, r2CrossT1, frictionVector1),
                             massAsAllocated),
             inverseFriction2Mass |->
                 InverseMass(ConstraintMass(b1.mMassInverse, b2.mMassInverse,
                                            b1.inertiaTensorInverseWorld,
                                            b2.inertiaTensorInverseWorld,
                                            frame.r1Friction, frame.r2Friction,
                                            r1CrossT2, r2CrossT2, frictionVector2),
                             massAsAllocated),
             inverseTwistFrictionMass |->
                 InverseMass(RAdd(VDot(frame.normal,
                                       MVec(b1.inertiaTensorInverseWorld, frame.normal)),
                                  VDot(frame.normal,
                                       MVec(b2.inertiaTensorInverseWorld, frame.normal))),
                             massAsAllocated),
             totalPenetrationImpulse |-> totalAsAllocated])))

MutCentroidBlocksRun(isActive) == isActive

\* The guard "if (mIsSolveFrictionAtContactManifoldCenterActive)" of the
\* blocks that build the friction constraint at the centroid is commented
\* out: the blocks run whatever the toggle
CentroidBlocksRun(isActive) == TRUE

\* the friction frame of a manifold; the blocks skipped, the normal is never
\* accumulated
CentroidFrame(frame, isActive) ==
    IF CentroidBlocksRun(isActive) THEN frame
    ELSE [frame EXCEPT !.normalSum = VZero, !.normal = VZero, !.exact = TRUE]

MutPenetrationCapacity(nbContactManifolds) == nbContactManifolds * 8

\* new PenetrationConstraint[mNbContactManifolds * 4]
PenetrationCapacity(nbContactManifolds) == nbContactManifolds * 4

\* One pass of the loop over the manifolds of the island.  acc holds the
\* records written so far and the contact points as marked so far; its
\* status becomes "assert" when an assertion fails and "inexact" when a
\* length the code needs is irrational.
InitManifold(m, i, acc, in) ==
    IF ManifoldPoints(m) = <<>> THEN [acc EXCEPT !.status = "assert"]
    ELSE
      With2(ManifoldPoints(m),
            CentroidFrame(FrictionFrame(m, in.lin, in.ang, in.pastTheEnd), in.atCenter),
        LAMBDA points, frame :
        With([acc EXCEPT
                 !.pens = acc.pens \o
                     [k \in 1..Len(points) |->
                         NewPenetrationConstraint(points[k], frame.body1, frame.body2,
                             frame.indexBody1, frame.indexBody2,
                             computeMixedRestitutionFactor(frame.body1, frame.body2),
                             i - 1, in.lin, in.ang, in.warm, acc.contactPoints,
                             in.massAsAllocated)],
                 !.manifolds = Append(acc.manifolds, [externalContactManifold |-> m]),
                 !.overrun = \/ acc.overrun
                             \/ Len(acc.pens) + Len(points) > in.capacity,
                 !.contactPoints =
                     [c \in ContactPointIds |->
                         IF \E k \in 1..Len(points) : points[k] = c
                         THEN [acc.contactPoints[c] EXCEPT !.isRestingContact = TRUE]
                         ELSE acc.contactPoints[c]]],
          LAMBDA withPoints :
            IF ~frame.exact THEN [withPoints EXCEPT !.status = "inexact"]
            ELSE IF ~RLt(MACHINE_EPSILON, VLength(frame.normal))
            THEN [withPoints EXCEPT !.status = "assert"]
            ELSE IF ~FrictionVectorsExact(frame.deltaVFrictionPoint, frame.normal)
            THEN [withPoints EXCEPT !.status = "inexact"]
            ELSE [withPoints EXCEPT !.frics = Append(acc.frics,
                     NewFrictionConstraint(m, frame,
                         \E k \in 1..Len(points) :
                             GetIsRestingContact(acc.contactPoints, points[k]),
                         in.warm, in.manifoldCache,
                         in.massAsAllocated, in.totalAsAllocated))]))

\* The loop over the manifolds of the island, from manifold i on; it ends
\* at the first manifold that does not leave the status "ok"
RECURSIVE InitManifolds(_, _, _, _)
InitManifolds(ms, i, acc, in) ==
    IF i > Len(ms) THEN acc
    ELSE With(InitManifold(ms[i], i, acc, in),
              LAMBDA next : IF next.status # "ok" THEN next
                            ELSE InitManifolds(ms, i + 1, next, in))

(***************************************************************************)
(* Impulse application.  vel = [lin, ang] are two velocity arrays, c is a  *)
(* constraint record.  The body 1 velocities are written before those of   *)
(* body 2, as in the source.                                               *)
(***************************************************************************)
ApplyImpulse(vel, c, linearImpulseBody1, angularImpulseBody1, linearImpulseBody2, angularImpulseBody2) ==
    [lin |-> [vel.lin EXCEPT
                 ![c.indexBody1] = VAdd(@, VScale(linearImpulseBody1, c.massInverseBody1)),
                 ![c.indexBody2] = VAdd(@, VScale(linearImpulseBody2, c.massInverseBody2))],
     ang |-> [vel.ang EXCEPT
                 ![c.indexBody1] =
                     VAdd(@, MVec(c.inverseInertiaTensorBody1, angularImpulseBody1)),
                 ![c.indexBody2] =
                     VAdd(@, MVec(c.inverseInertiaTensorBody2, angularImpulseBody2))]]

\* J*v of a constraint at offsets r1, r2 along direction t
RelativeVelocity(vel, c, r1, r2) ==
    DeltaV(vel.lin[c.indexBody1], vel.ang[c.indexBody1],
           vel.lin[c.indexBody2], vel.ang[c.indexBody2], r1, r2)

(***************************************************************************)
(* ContactSolver::warmStart                                                *)
(***************************************************************************)
MutWarmStartPenetration(vel, pc) ==
    IF pc.isRestingContact
    THEN With2(VScale(pc.normal, pc.penetrationImpulse),
               VScale(VNeg(pc.r1CrossN), pc.penetrationImpulse),
           LAMBDA linearImpulse, angularImpulse :
               [vel |-> ApplyImpulse(vel, pc, VNeg(linearImpulse), angularImpulse,
                                     linearImpulse, angularImpulse),
                pc |-> pc])
    ELSE [vel |-> vel, pc |-> pc]

\* Penetration part, one constraint.  Both angular updates use r1CrossN.
WarmStartPenetration(vel, pc) ==
    IF pc.isRestingContact
    THEN With2(VScale(pc.normal, pc.penetrationImpulse),
               VScale(VNeg(pc.r1CrossN), pc.penetrationImpulse),
           LAMBDA linearImpulse, angularImpulse :
               [vel |-> ApplyImpulse(vel, pc, VNeg(linearImpulse), angularImpulse,
                                     linearImpulse, angularImpulse),
                pc |-> pc])
    ELSE [vel |-> vel, pc |-> [pc EXCEPT !.penetrationImpulse = Zero]]

MutReprojectFrictionImpulses(fc) ==
    With(VAdd(VScale(fc.oldFrictionVector1, fc.friction1Impulse),
              VScale(fc.oldFrictionVector1, fc.friction2Impulse)),
         LAMBDA oldFrictionImpulse :
             [fc EXCEPT !.friction1Impulse = VDot(oldFrictionImpulse, fc.frictionVector1),
                        !.friction2Impulse = VDot(oldFrictionImpulse, fc.frictionVector2)])

\* Projection of the old friction impulses onto the new friction vectors
ReprojectFrictionImpulses(fc) ==
    With(VAdd(VScale(fc.oldFrictionVector1, fc.friction1Impulse),
              VScale(fc.oldFrictionVector2, fc.friction2Impulse)),
         LAMBDA oldFrictionImpulse :
             [fc EXCEPT !.friction1Impulse = VDot(oldFrictionImpulse, fc.frictionVector1),
                        !.friction2Impulse = VDot(oldFrictionImpulse, fc.frictionVector2)])

\* The impulse of one warm-started constraint direction: linear impulse
\* +-linear on the bodies, angular impulses angular1 and angular2
WarmStartImpulse(vel, fc, linear, angular1, angular2) ==
    ApplyImpulse(vel, fc, VNeg(linear), angular1, linear, angular2)

\* Friction part, one constraint
WarmStartFriction(vel, fc0) ==
    IF fc0.hasAtLeastOneRestingContactPoint
    THEN With(ReprojectFrictionImpulses(fc0),
           LAMBDA fc :
             [vel |->
                 WarmStartImpulse(
                   WarmStartImpulse(
                     WarmStartImpulse(
                       WarmStartImpulse(vel, fc,
                           VScale(fc.frictionVector1, fc.friction1Impulse),
                           VScale(VNeg(fc.r1CrossT1), fc.friction1Impulse),
                           VScale(fc.r2CrossT1, fc.friction1Impulse)),
                       fc,
                       VScale(fc.frictionVector2, fc.friction2Impulse),
                       VScale(VNeg(fc.r1CrossT2), fc.friction2Impulse),
                       VScale(fc.r2CrossT2, fc.friction2Impulse)),
                     fc, VZero,
                     VNeg(VScale(fc.normal, fc.frictionTwistImpulse)),
                     VScale(fc.normal, fc.frictionTwistImpulse)),
                   fc, VZero, VNeg(fc.rollingResistanceImpulse), fc.rollingResistanceImpulse),
              fc |-> fc])
    ELSE [vel |-> vel,
          fc |-> [fc0 EXCEPT !.friction1Impulse = Zero, !.friction2Impulse = Zero,
                             !.frictionTwistImpulse = Zero,
                             !.rollingResistanceImpulse = VZero]]

RECURSIVE WarmStartPenetrationLoop(_, _, _)
WarmStartPenetrationLoop(i, vel, pens) ==
    IF i > Len(pens) THEN [vel |-> vel, pens |-> pens]
    ELSE With(WarmStartPenetration(vel, pens[i]),
              LAMBDA r : WarmStartPenetrationLoop(i + 1, r.vel, [pens EXCEPT ![i] = r.pc]))

RECURSIVE WarmStartFrictionLoop(_, _, _)
WarmStartFrictionLoop(i, vel, frics) ==
    IF i > Len(frics) THEN [vel |-> vel, frics |-> frics]
    ELSE With(WarmStartFriction(vel, frics[i]),
              LAMBDA r : WarmStartFrictionLoop(i + 1, r.vel, [frics EXCEPT ![i] = r.fc]))

(***************************************************************************)
(* ContactSolver::solvePenetrationConstraints                              *)
(***************************************************************************)
\* -(beta / mTimeStep) * max(0, penetrationDepth - SLOP) when the depth exceeds SLOP
BiasPenetrationDepth(pc, timeStep, splitImpulse) ==
    IF RLt(SLOP, pc.penetrationDepth)
    THEN RNeg(RMul(RDiv(IF splitImpulse THEN BETA_SPLIT_IMPULSE ELSE BETA, timeStep),
                   RMax(Zero, RSub(pc.penetrationDepth, SLOP))))
    ELSE Zero

MutDeltaLambdaPenetration(pc, Jv, biasPenetrationDepth, splitImpulse) ==
    RMul(RNeg(RAdd(Jv, IF splitImpulse
                       THEN pc.restitutionBias
                       ELSE RAdd(biasPenetrationDepth, pc.restitutionBias))),
         Rat(1, 2))

MutDeltaLambdaWithBias(pc, Jv, biasPenetrationDepth, splitImpulse) ==
    RMul(RNeg(RAdd(Jv, RAdd(biasPenetrationDepth, pc.restitutionBias))),
         pc.inversePenetrationMass)

\* the Lagrange multiplier of the velocity solve before projection
DeltaLambdaPenetration(pc, Jv, biasPenetrationDepth, splitImpulse) ==
    RMul(RNeg(RAdd(Jv, IF splitImpulse
                       THEN pc.restitutionBias
                       ELSE RAdd(biasPenetrationDepth, pc.restitutionBias))),
         pc.inversePenetrationMass)

MutAccumulatePenetrationImpulse(impulse, deltaLambda) == RAdd(impulse, deltaLambda)

\* std::max(impulse + deltaLambda, 0)
AccumulatePenetrationImpulse(impulse, deltaLambda) ==
    RMax(RAdd(impulse, deltaLambda), Zero)

MutApplyPenetrationImpulse(vel, pc, deltaLambda) ==
    With(VScale(pc.normal, deltaLambda),
         LAMBDA linearImpulse :
             ApplyImpulse(vel, pc, linearImpulse,
                          VScale(VNeg(pc.r1CrossN), deltaLambda),
                          linearImpulse, VScale(pc.r2CrossN, deltaLambda)))

MutApplyPenetrationImpulseTwice(vel, pc, deltaLambda) ==
    With(VScale(pc.normal, RAdd(deltaLambda, deltaLambda)),
         LAMBDA linearImpulse :
             ApplyImpulse(vel, pc, VNeg(linearImpulse),
                          VScale(VNeg(pc.r1CrossN), deltaLambda),
                          linearImpulse, VScale(pc.r2CrossN, deltaLambda)))

\* impulse P = J^T * lambda of a penetration constraint on the arrays vel
ApplyPenetrationImpulse(vel, pc, deltaLambda) ==
    With(VScale(pc.normal, deltaLambda),
         LAMBDA linearImpulse :
             ApplyImpulse(vel, pc, VNeg(linearImpulse),
                          VScale(VNeg(pc.r1CrossN), deltaLambda),
                          linearImpulse, VScale(pc.r2CrossN, deltaLambda)))

\* J*v of a penetration constraint on the arrays vel
PenetrationJv(vel, pc) == VDot(RelativeVelocity(vel, pc, pc.r1, pc.r2), pc.normal)

MutAddToTotalPenetrationImpulse(frics, pc, penetrationImpulse) ==
    [frics EXCEPT ![pc.indexFrictionConstraint + 1].totalPenetrationImpulse =
        penetrationImpulse]

\* totalPenetrationImpulse of the owning friction constraint += penetrationImpulse
AddToTotalPenetrationImpulse(frics, pc, penetrationImpulse) ==
    [frics EXCEPT ![pc.indexFrictionConstraint + 1].totalPenetrationImpulse =
        RAdd(@, penetrationImpulse)]

\* One pass of the loop: st = [vel, split, pens, frics]
SolvePenetrationConstraint(st, i, timeStep, splitImpulse) ==
    With2(st.pens[i], BiasPenetrationDepth(st.pens[i], timeStep, splitImpulse),
      LAMBDA pc, biasPenetrationDepth :
      With2(AccumulatePenetrationImpulse(pc.penetrationImpulse,
                DeltaLambdaPenetration(pc, PenetrationJv(st.vel, pc), biasPenetrationDepth,
                                       splitImpulse)),
            IF splitImpulse
            THEN AccumulatePenetrationImpulse(pc.penetrationSplitImpulse,
                     RMul(RNeg(RAdd(PenetrationJv(st.split, pc), biasPenetrationDepth)),
                          pc.inversePenetrationMass))
            ELSE pc.penetrationSplitImpulse,
        LAMBDA penetrationImpulse, penetrationSplitImpulse :
            [vel |-> ApplyPenetrationImpulse(st.vel, pc,
                         RSub(penetrationImpulse, pc.penetrationImpulse)),
             split |-> IF splitImpulse
                       THEN ApplyPenetrationImpulse(st.split, pc,
                                RSub(penetrationSplitImpulse, pc.penetrationSplitImpulse))
                       ELSE st.split,
             pens |-> [st.pens EXCEPT ![i].penetrationImpulse = penetrationImpulse,
                                      ![i].penetrationSplitImpulse = penetrationSplitImpulse],
             frics |-> AddToTotalPenetrationImpulse(st.frics, pc, penetrationImpulse)]))

RECURSIVE MutSolvePenetrationLoop(_, _, _, _)
MutSolvePenetrationLoop(i, st, timeStep, splitImpulse) ==
    IF i > Len(st.pens) THEN st
    ELSE MutSolvePenetrationLoop(i + 1,
             SolvePenetrationConstraint(st, Len(st.pens) - i + 1, timeStep, splitImpulse),
             timeStep, splitImpulse)

RECURSIVE SolvePenetrationLoop(_, _, _, _)
SolvePenetrationLoop(i, st, timeStep, splitImpulse) ==
    IF i > Len(st.pens) THEN st
    ELSE SolvePenetrationLoop(i + 1, SolvePenetrationConstraint(st, i, timeStep, splitImpulse),
                              timeStep, splitImpulse)

(***************************************************************************)
(* ContactSolver::solveFrictionConstraints                                 *)
(***************************************************************************)
FrictionLimit(fc) == RMul(fc.frictionCoefficient, fc.totalPenetrationImpulse)

MutClampFrictionImpulse(impulse, deltaLambda, frictionLimit) ==
    RMin(RAdd(impulse, deltaLambda), frictionLimit)

\* std::max(-frictionLimit, std::min(impulse + deltaLambda, frictionLimit))
ClampFrictionImpulse(impulse, deltaLambda, frictionLimit) ==
    RMax(RNeg(frictionLimit), RMin(RAdd(impulse, deltaLambda), frictionLimit))

\* J*v of a friction constraint along the friction vector t
FrictionJv(vel, fc, t) ==
    VDot(RelativeVelocity(vel, fc, fc.r1Friction, fc.r2Friction), t)

\* First friction constraint at the center of the contact manifold
SolveFriction1(vel, fc) ==
    With(ClampFrictionImpulse(fc.friction1Impulse,
             RMul(RNeg(FrictionJv(vel, fc, fc.frictionVector1)), fc.inverseFriction1Mass),
             FrictionLimit(fc)),
      LAMBDA friction1Impulse :
      With(RSub(friction1Impulse, fc.friction1Impulse),
        LAMBDA deltaLambda :
        With(VScale(fc.frictionVector1, deltaLambda),
          LAMBDA linearImpulseBody2 :
            [vel |-> ApplyImpulse(vel, fc, VNeg(linearImpulseBody2),
                                  VScale(VNeg(fc.r1CrossT1), deltaLambda),
                                  linearImpulseBody2, VScale(fc.r2CrossT1, deltaLambda)),
             fc |-> [fc EXCEPT !.friction1Impulse = friction1Impulse]])))

\* Second friction constraint at the center of the contact manifold
SolveFriction2(vel, fc) ==
    With(ClampFrictionImpulse(fc.friction2Impulse,
             RMul(RNeg(FrictionJv(vel, fc, fc.frictionVector2)), fc.inverseFriction2Mass),
             FrictionLimit(fc)),
      LAMBDA friction2Impulse :
      With(RSub(friction2Impulse, fc.friction2Impulse),
        LAMBDA deltaLambda :
        With(VScale(fc.frictionVector2, deltaLambda),
          LAMBDA linearImpulseBody2 :
            [vel |-> ApplyImpulse(vel, fc, VNeg(linearImpulseBody2),
                                  VScale(VNeg(fc.r1CrossT2), deltaLambda),
                                  linearImpulseBody2, VScale(fc.r2CrossT2, deltaLambda)),
             fc |-> [fc EXCEPT !.friction2Impulse = friction2Impulse]])))

MutSolveFrictionTwist(vel, fc) ==
    With(ClampFrictionImpulse(fc.frictionTwistImpulse,
             RMul(RNeg(VDot(VSub(vel.ang[fc.indexBody2], vel.ang[fc.indexBody1]),
                            fc.normal)),
                  fc.inverseTwistFrictionMass),
             FrictionLimit(fc)),
      LAMBDA frictionTwistImpulse :
      With(VScale(fc.normal, RSub(frictionTwistImpulse, fc.frictionTwistImpulse)),
        LAMBDA angularImpulseBody2 :
            [vel |-> ApplyImpulse(vel, fc, VNeg(angularImpulseBody2),
                                  VNeg(angularImpulseBody2),
                                  angularImpulseBody2, angularImpulseBody2),
             fc |-> [fc EXCEPT !.frictionTwistImpulse = frictionTwistImpulse]]))

\* Twist friction constraint at the center of the contact manifold
SolveFrictionTwist(vel, fc) ==
    With(ClampFrictionImpulse(fc.frictionTwistImpulse,
             RMul(RNeg(VDot(VSub(vel.ang[fc.indexBody2], vel.ang[fc.indexBody1]),
                            fc.normal)),
                  fc.inverseTwistFrictionMass),
             FrictionLimit(fc)),
      LAMBDA frictionTwistImpulse :
      With(VScale(fc.normal, RSub(frictionTwistImpulse, fc.frictionTwistImpulse)),
        LAMBDA angularImpulseBody2 :
            [vel |-> ApplyImpulse(vel, fc, VZero, VNeg(angularImpulseBody2),
                                  VZero, angularImpulseBody2),
             fc |-> [fc EXCEPT !.frictionTwistImpulse = frictionTwistImpulse]]))

MutRollingLimit(fc) == fc.rollingResistanceFactor

RollingLimit(fc) == RMul(fc.rollingResistanceFactor, fc.totalPenetrationImpulse)

\* Rolling resistance constraint at the center of the contact manifold
SolveRollingResistance(vel, fc) ==
    IF RLt(Zero, fc.rollingResistanceFactor)
    THEN With(VClamp(VAdd(fc.rollingResistanceImpulse,
                          MVec(fc.inverseRollingResistance,
                               VNeg(VSub(vel.ang[fc.indexBody2], vel.ang[fc.indexBody1])))),
                     RollingLimit(fc)),
           LAMBDA rollingResistanceImpulse :
           With(VSub(rollingResistanceImpulse, fc.rollingResistanceImpulse),
             LAMBDA deltaLambdaRolling :
               [vel |-> [lin |-> vel.lin,
                         ang |-> [vel.ang EXCEPT
                                    ![fc.indexBody1] =
                                        VAdd(@, MVec(fc.inverseInertiaTensorBody1,
                                                     VNeg(deltaLambdaRolling))),
                                    ![fc.indexBody2] =
                                        VAdd(@, MVec(fc.inverseInertiaTensorBody2,
                                                     deltaLambdaRolling))]],
                fc |-> [fc EXCEPT !.rollingResistanceImpulse = rollingResistanceImpulse]]))
    ELSE [vel |-> vel, fc |-> fc]

MutSolveFrictionConstraint(vel, fc) ==
    With(SolveFriction1(vel, fc),
      LAMBDA s1 :
      With(SolveFriction2(s1.vel, s1.fc),
        LAMBDA s2 :
        With(SolveFrictionTwist(s2.vel, s2.fc),
          LAMBDA s3 :
          With(SolveRollingResistance(s3.vel, s3.fc),
            LAMBDA s4 : [vel |-> s4.vel,
                         fc |-> [s4.fc EXCEPT !.totalPenetrationImpulse = Zero]]))))

\* One pass of the loop over the friction constraints
SolveFrictionConstraint(vel, fc) ==
    With(SolveFriction1(vel, fc),
      LAMBDA s1 :
      With(SolveFriction2(s1.vel, s1.fc),
        LAMBDA s2 :
        With(SolveFrictionTwist(s2.vel, s2.fc),
          LAMBDA s3 : SolveRollingResistance(s3.vel, s3.fc))))

RECURSIVE SolveFrictionLoop(_, _, _)
SolveFrictionLoop(i, vel, frics) ==
    IF i > Len(frics) THEN [vel |-> vel, frics |-> frics]
    ELSE With(SolveFrictionConstraint(vel, frics[i]),
              LAMBDA r : SolveFrictionLoop(i + 1, r.vel, [frics EXCEPT ![i] = r.fc]))

(***************************************************************************)
(* ContactSolver::storeImpulses                                            *)
(***************************************************************************)
RECURSIVE MutStorePenetrationImpulses(_, _, _)
MutStorePenetrationImpulses(i, pens, points) ==
    IF i > Len(pens) THEN points
    ELSE MutStorePenetrationImpulses(i + 1, pens,
             [points EXCEPT ![pens[i].contactPoint] =
                 [isRestingContact |-> FALSE,
                  penetrationImpulse |-> pens[i].penetrationImpulse]])

MutSkipStorePenetrationImpulses(i, pens, points) == points

RECURSIVE StorePenetrationImpulses(_, _, _)
StorePenetrationImpulses(i, pens, points) ==
    IF i > Len(pens) THEN points
    ELSE StorePenetrationImpulses(i + 1, pens,
             [points EXCEPT ![pens[i].contactPoint].penetrationImpulse =
                 pens[i].penetrationImpulse])

RECURSIVE StoreFrictionImpulses(_, _, _)
StoreFrictionImpulses(i, frics, mans) ==
    IF i > Len(frics) THEN mans
    ELSE StoreFrictionImpulses(i + 1, frics,
             [mans EXCEPT ![frics[i].contactManifold] =
                 [frictionImpulse1 |-> frics[i].friction1Impulse,
                  frictionImpulse2 |-> frics[i].friction2Impulse,
                  frictionTwistImpulse |-> frics[i].frictionTwistImpulse,
                  rollingResistanceImpulse |-> frics[i].rollingResistanceImpulse,
                  frictionVector1 |-> frics[i].frictionVector1,
                  frictionVector2 |-> frics[i].frictionVector2]])

(***************************************************************************)
(* Bounds of the model                                                     *)
(***************************************************************************)
\* calls of the solver's operations in one run of the free-order specification
MaxCalls == 3
\* calls of the solver's operations in one run of the engine's pipeline
MaxPipelineCalls == 12
\* calls of the solver's operations in one run of the sweeps in any order
MaxSweepCalls == 4
\* largest value the constraint counters hold before they are first assigned
MaxUninitializedCount == 1

(***************************************************************************)
(* State                                                                   *)
(***************************************************************************)
VARIABLES
    contactPoints,          \* per contact point: isRestingContact, penetrationImpulse
    contactManifolds,       \* per manifold: cached friction vectors and impulses
    mLinearVelocities, mAngularVelocities,
    mSplitLinearVelocities, mSplitAngularVelocities,
    mContactConstraints, mPenetrationConstraints, mFrictionConstraints,
    mTimeStep, mNbContactManifolds, mNbFrictionConstraints, mNbPenetrationConstraints,
    mIsWarmStartingActive, mIsSplitImpulseActive,
    mIsSolveFrictionAtContactManifoldCenterActive,
    heapArrays,             \* arrays allocated with new[] and not yet deleted
    pc,                     \* "running", "aborted" (assert), "crashed", "overflow",
                            \* "corrupted" (a write past the end of an array went through)
    lastOp,                 \* the last solver operation called
    nbCalls,                \* solver operations called so far
    initCall,               \* arguments of the last initializeForIsland call
    nullAccess,             \* an operation went through a null array pointer
    reinitOverLive,         \* initializeForIsland ran while arrays were allocated
    totalReset,             \* resetTotalPenetrationImpulse ran on the current arrays
    stage,                  \* progress of initialize -> store -> cleanup
    prevInit,               \* inputs and effective masses of the last completed initialize
    reinit,                 \* verdict of the last re-initialization on identical inputs
    twin                    \* a second solver run on the same inputs, see NextToggle

world == <<contactPoints, contactManifolds>>
buffers == <<mLinearVelocities, mAngularVelocities,
             mSplitLinearVelocities, mSplitAngularVelocities>>
arrays == <<mContactConstraints, mPenetrationConstraints, mFrictionConstraints>>
counters == <<mTimeStep, mNbContactManifolds, mNbFrictionConstraints,
              mNbPenetrationConstraints>>
toggles == <<mIsWarmStartingActive, mIsSplitImpulseActive,
             mIsSolveFrictionAtContactManifoldCenterActive>>
history == <<initCall, nullAccess, reinitOverLive, totalReset, stage, prevInit, reinit>>
vars == <<world, buffers, arrays, counters, toggles, heapArrays, pc, lastOp, nbCalls,
          history, twin>>

NoInit == [island |-> "none", dt |-> Zero, lin |-> <<>>, ang |-> <<>>,
           penetrationMasses |-> <<>>, frictionMasses |-> <<>>]

\* the second solver after construction, before any buffer is handed over
NoTwin ==
    [status |-> "ok", timeStep |-> Zero,
     vel |-> [lin |-> <<>>, ang |-> <<>>], split |-> [lin |-> <<>>, ang |-> <<>>],
     pens |-> <<>>, frics |-> <<>>,
     contactPoints |-> [c \in ContactPointIds |->
                           [isRestingContact |-> FALSE, penetrationImpulse |-> Zero]],
     contactManifolds |-> [m \in ManifoldIds |->
                              [frictionImpulse1 |-> Zero, frictionImpulse2 |-> Zero,
                               frictionTwistImpulse |-> Zero,
                               rollingResistanceImpulse |-> VZero,
                               frictionVector1 |-> VZero, frictionVector2 |-> VZero]]]

\* The state after ContactSolver::ContactSolver: pointers null, the three
\* toggles true; the time step and the counters are not assigned
Init ==
    /\ contactPoints = [c \in ContactPointIds |->
                           [isRestingContact |-> FALSE, penetrationImpulse |-> Zero]]
    /\ contactManifolds = [m \in ManifoldIds |->
                              [frictionImpulse1 |-> Zero, frictionImpulse2 |-> Zero,
                               frictionTwistImpulse |-> Zero,
                               rollingResistanceImpulse |-> VZero,
                               frictionVector1 |-> VZero, frictionVector2 |-> VZero]]
    /\ mLinearVelocities = nullptr /\ mAngularVelocities = nullptr
    /\ mSplitLinearVelocities = nullptr /\ mSplitAngularVelocities = nullptr
    /\ mContactConstraints = nullptr
    /\ mPenetrationConstraints = nullptr
    /\ mFrictionConstraints = nullptr
    /\ \E n \in 0..MaxUninitializedCount :
          /\ mTimeStep = Rat(n, 1)
          /\ mNbContactManifolds = n
          /\ mNbFrictionConstraints = n
          /\ mNbPenetrationConstraints = n
    /\ mIsWarmStartingActive = TRUE
    /\ mIsSplitImpulseActive = TRUE
    /\ mIsSolveFrictionAtContactManifoldCenterActive = TRUE
    /\ heapArrays = 0
    /\ pc = "running"
    /\ lastOp = "ContactSolver"
    /\ nbCalls = 0
    /\ initCall = [island |-> "none", dt |-> Zero]
    /\ nullAccess = FALSE
    /\ reinitOverLive = FALSE
    /\ totalReset = FALSE
    /\ stage = "none"
    /\ prevInit = NoInit
    /\ reinit = "none"
    /\ twin = NoTwin

\* no island is initialized: the per-island arrays are not allocated
Idle ==
    /\ mContactConstraints.isNull
    /\ mPenetrationConstraints.isNull
    /\ mFrictionConstraints.isNull

NbLivePointers ==
    (IF mContactConstraints.isNull THEN 0 ELSE 1)
    + (IF mPenetrationConstraints.isNull THEN 0 ELSE 1)
    + (IF mFrictionConstraints.isNull THEN 0 ELSE 1)

(***************************************************************************)
(* Operations                                                              *)
(***************************************************************************)
Called(op) == /\ lastOp' = op /\ nbCalls' = nbCalls + 1

\* The loops of an operation run up to the counters; with a null array
\* pointer and a counter above zero the first pass goes through the null
\* pointer.  The call then either faults or returns without effect.
ThroughNull(usesPenetration, usesFriction) ==
    \/ usesPenetration /\ mNbPenetrationConstraints > 0 /\ mPenetrationConstraints.isNull
    \/ usesFriction /\ mNbFrictionConstraints > 0 /\ mFrictionConstraints.isNull

NullAccess(op) ==
    /\ Called(op)
    /\ nullAccess' = TRUE
    /\ pc' \in {"crashed", "running"}
    /\ UNCHANGED <<world, buffers, arrays, counters, toggles, heapArrays, initCall,
                   reinitOverLive, totalReset, stage, prevInit, reinit>>

\* setVelocityBuffers: the integrator hands over the four velocity arrays
SetVelocityBuffers(bv) ==
    /\ pc = "running" /\ Idle
    /\ mLinearVelocities' = Array(LinearBuffer(bv))
    /\ mAngularVelocities' = Array(AngularBuffer(bv))
    /\ mSplitLinearVelocities' = Array(ZeroBuffer)
    /\ mSplitAngularVelocities' = Array(ZeroBuffer)
    /\ UNCHANGED <<world, arrays, counters, toggles, heapArrays, pc, lastOp, nbCalls,
                   history>>

SetIsWarmStartingActive(isActive) ==
    /\ pc = "running" /\ Idle
    /\ mIsWarmStartingActive' = isActive
    /\ UNCHANGED <<world, buffers, arrays, counters, mIsSplitImpulseActive,
                   mIsSolveFrictionAtContactManifoldCenterActive, heapArrays, pc, lastOp,
                   nbCalls, history>>

SetIsSplitImpulseActive(isActive) ==
    /\ pc = "running" /\ Idle
    /\ mIsSplitImpulseActive' = isActive
    /\ UNCHANGED <<world, buffers, arrays, counters, mIsWarmStartingActive,
                   mIsSolveFrictionAtContactManifoldCenterActive, heapArrays, pc, lastOp,
                   nbCalls, history>>

SetIsSolveFrictionAtContactManifoldCenterActive(isActive) ==
    /\ pc = "running" /\ Idle
    /\ mIsSolveFrictionAtContactManifoldCenterActive' = isActive
    /\ UNCHANGED <<world, buffers, arrays, counters, mIsWarmStartingActive,
                   mIsSplitImpulseActive, heapArrays, pc, lastOp, nbCalls, history>>

HasUnmappedBody(island) ==
    \E k \in 1..Len(Island(island).contactManifolds) :
        LET points == ManifoldPoints(Island(island).contactManifolds[k])
        IN  /\ points # <<>>
            /\ \/ ContactPoint(points[1]).body1 \notin MappedBodies
               \/ ContactPoint(points[1]).body2 \notin MappedBodies

PenetrationMasses(pens) == [k \in 1..Len(pens) |-> pens[k].inversePenetrationMass]
FrictionMasses(frics) ==
    [k \in 1..Len(frics) |-> <<frics[k].inverseFriction1Mass, frics[k].inverseFriction2Mass,
                               frics[k].inverseTwistFrictionMass>>]

\* The three new[] of initializeForIsland: the pointers are overwritten
\* without a look at what they held
AllocatedArrays(live) == live + 3

InitializeForIsland(dt, island, asAllocated, pastTheEnd) ==
    /\ pc = "running"
    /\ Called("initializeForIsland")
    /\ initCall' = [island |-> island, dt |-> dt]
    /\ IF \/ Island(island).isNull
          \/ Island(island).nbBodies = 0
          \/ Len(Island(island).contactManifolds) = 0
          \/ mSplitLinearVelocities.isNull
          \/ mSplitAngularVelocities.isNull
       THEN /\ pc' = "aborted"
            /\ UNCHANGED <<world, buffers, arrays, counters, toggles, heapArrays,
                           nullAccess, reinitOverLive, totalReset, stage, prevInit, reinit>>
       ELSE LET ms == Island(island).contactManifolds
                lin == mLinearVelocities.elems
                ang == mAngularVelocities.elems
            IN \E r \in {InitManifolds(ms, 1,
                        [status |-> "ok", pens |-> <<>>, frics |-> <<>>, manifolds |-> <<>>,
                         contactPoints |-> contactPoints, overrun |-> FALSE],
                        [lin |-> lin, ang |-> ang, warm |-> mIsWarmStartingActive,
                         pastTheEnd |-> pastTheEnd, manifoldCache |-> contactManifolds,
                         massAsAllocated |-> asAllocated, totalAsAllocated |-> asAllocated,
                         atCenter |-> mIsSolveFrictionAtContactManifoldCenterActive,
                         capacity |-> PenetrationCapacity(Len(ms))])} :
               LET
                same == /\ stage = "cleaned"
                        /\ prevInit.island = island /\ prevInit.dt = dt
                        /\ prevInit.lin = lin /\ prevInit.ang = ang
            IN  /\ r.status # "inexact"
                /\ mTimeStep' = dt
                /\ mNbContactManifolds' = Len(ms)
                /\ mNbFrictionConstraints' = Len(r.frics)
                /\ mNbPenetrationConstraints' = Len(r.pens)
                /\ heapArrays' = AllocatedArrays(heapArrays)
                /\ reinitOverLive' = (reinitOverLive \/ ~Idle)
                /\ mContactConstraints' = Array(r.manifolds)
                /\ mPenetrationConstraints' = Array(r.pens)
                /\ mFrictionConstraints' = Array(r.frics)
                /\ contactPoints' = r.contactPoints
                /\ pc' \in (IF r.status = "assert" THEN {"aborted"}
                            ELSE IF r.overrun THEN {"crashed", "corrupted"}
                            ELSE {"running"})
                /\ totalReset' = FALSE
                /\ stage' = "initialized"
                /\ prevInit' = IF r.status = "ok"
                               THEN [island |-> island, dt |-> dt, lin |-> lin, ang |-> ang,
                                     penetrationMasses |-> PenetrationMasses(r.pens),
                                     frictionMasses |-> FrictionMasses(r.frics)]
                               ELSE NoInit
                /\ reinit' = IF r.status = "ok" /\ same
                             THEN (IF /\ PenetrationMasses(r.pens) = prevInit.penetrationMasses
                                      /\ FrictionMasses(r.frics) = prevInit.frictionMasses
                                   THEN "same" ELSE "differs")
                             ELSE "none"
                /\ UNCHANGED <<contactManifolds, buffers, toggles, nullAccess>>

WarmStart ==
    /\ pc = "running"
    /\ IF ThroughNull(TRUE, TRUE) THEN NullAccess("warmStart")
       ELSE \E p \in {WarmStartPenetrationLoop(1,
                        [lin |-> mLinearVelocities.elems, ang |-> mAngularVelocities.elems],
                        mPenetrationConstraints.elems)} :
            \E f \in {WarmStartFrictionLoop(1, p.vel, mFrictionConstraints.elems)} :
                /\ Called("warmStart")
                /\ mPenetrationConstraints' = [mPenetrationConstraints EXCEPT !.elems = p.pens]
                /\ mFrictionConstraints' = [mFrictionConstraints EXCEPT !.elems = f.frics]
                /\ mLinearVelocities' = [mLinearVelocities EXCEPT !.elems = f.vel.lin]
                /\ mAngularVelocities' = [mAngularVelocities EXCEPT !.elems = f.vel.ang]
                /\ UNCHANGED <<world, mSplitLinearVelocities, mSplitAngularVelocities,
                               mContactConstraints, counters, toggles, heapArrays, pc,
                               history>>

ResetTotalPenetrationImpulse ==
    /\ pc = "running"
    /\ IF ThroughNull(FALSE, TRUE) THEN NullAccess("resetTotalPenetrationImpulse")
       ELSE /\ Called("resetTotalPenetrationImpulse")
            /\ mFrictionConstraints' =
                  [mFrictionConstraints EXCEPT !.elems =
                      [k \in 1..Len(mFrictionConstraints.elems) |->
                          [mFrictionConstraints.elems[k] EXCEPT
                              !.totalPenetrationImpulse = Zero]]]
            /\ totalReset' = ~Idle
            /\ UNCHANGED <<world, buffers, mContactConstraints, mPenetrationConstraints,
                           counters, toggles, heapArrays, pc, initCall, nullAccess,
                           reinitOverLive, stage, prevInit, reinit>>

\* beta / mTimeStep with a zero time step and a depth above SLOP: the bias is
\* infinite and the sweep leaves the finite numbers
BiasOverflows ==
    /\ mTimeStep = Zero
    /\ \E k \in 1..Len(mPenetrationConstraints.elems) :
          RLt(SLOP, mPenetrationConstraints.elems[k].penetrationDepth)

SolvePenetrationConstraints ==
    /\ pc = "running"
    /\ IF ThroughNull(TRUE, FALSE) THEN NullAccess("solvePenetrationConstraints")
       ELSE IF BiasOverflows
       THEN /\ Called("solvePenetrationConstraints")
            /\ pc' = "overflow"
            /\ UNCHANGED <<world, buffers, arrays, counters, toggles, heapArrays, history>>
       ELSE \E st \in {SolvePenetrationLoop(1,
                         [vel |-> [lin |-> mLinearVelocities.elems,
                                   ang |-> mAngularVelocities.elems],
                          split |-> [lin |-> mSplitLinearVelocities.elems,
                                     ang |-> mSplitAngularVelocities.elems],
                          pens |-> mPenetrationConstraints.elems,
                          frics |-> mFrictionConstraints.elems],
                         mTimeStep, mIsSplitImpulseActive)} :
                /\ Called("solvePenetrationConstraints")
                /\ mPenetrationConstraints' = [mPenetrationConstraints EXCEPT !.elems = st.pens]
                /\ mFrictionConstraints' = [mFrictionConstraints EXCEPT !.elems = st.frics]
                /\ mLinearVelocities' = [mLinearVelocities EXCEPT !.elems = st.vel.lin]
                /\ mAngularVelocities' = [mAngularVelocities EXCEPT !.elems = st.vel.ang]
                /\ mSplitLinearVelocities' =
                      [mSplitLinearVelocities EXCEPT !.elems = st.split.lin]
                /\ mSplitAngularVelocities' =
                      [mSplitAngularVelocities EXCEPT !.elems = st.split.ang]
                /\ UNCHANGED <<world, mContactConstraints, counters, toggles, heapArrays, pc,
                               history>>

SolveFrictionConstraints ==
    /\ pc = "running"
    /\ IF ThroughNull(FALSE, TRUE) THEN NullAccess("solveFrictionConstraints")
       ELSE \E f \in {SolveFrictionLoop(1,
                        [lin |-> mLinearVelocities.elems, ang |-> mAngularVelocities.elems],
                        mFrictionConstraints.elems)} :
                /\ Called("solveFrictionConstraints")
                /\ mFrictionConstraints' = [mFrictionConstraints EXCEPT !.elems = f.frics]
                /\ mLinearVelocities' = [mLinearVelocities EXCEPT !.elems = f.vel.lin]
                /\ mAngularVelocities' = [mAngularVelocities EXCEPT !.elems = f.vel.ang]
                /\ UNCHANGED <<world, mSplitLinearVelocities, mSplitAngularVelocities,
                               mContactConstraints, mPenetrationConstraints, counters,
                               toggles, heapArrays, pc, history>>

StoreImpulses ==
    /\ pc = "running"
    /\ IF ThroughNull(TRUE, TRUE) THEN NullAccess("storeImpulses")
       ELSE /\ Called("storeImpulses")
            /\ contactPoints' =
                  StorePenetrationImpulses(1, mPenetrationConstraints.elems, contactPoints)
            /\ contactManifolds' =
                  StoreFrictionImpulses(1, mFrictionConstraints.elems, contactManifolds)
            /\ stage' = IF stage \in {"initialized", "stored"} THEN "stored" ELSE stage
            /\ UNCHANGED <<buffers, arrays, counters, toggles, heapArrays, pc, initCall,
                           nullAccess, reinitOverLive, totalReset, prevInit, reinit>>

\* delete[] of the arrays whose pointer is not null
ReleasedArrays ==
    (IF mContactConstraints.isNull THEN 0 ELSE 1)
    + (IF mPenetrationConstraints.isNull THEN 0 ELSE 1)
    + (IF mFrictionConstraints.isNull THEN 0 ELSE 1)

Cleanup ==
    /\ pc = "running"
    /\ Called("cleanup")
    /\ heapArrays' = heapArrays - ReleasedArrays
    /\ mContactConstraints' = nullptr
    /\ mPenetrationConstraints' = nullptr
    /\ mFrictionConstraints' = nullptr
    /\ stage' = IF stage \in {"stored", "cleaned"} THEN "cleaned" ELSE "none"
    /\ UNCHANGED <<world, buffers, counters, toggles, pc, initCall, nullAccess,
                   reinitOverLive, totalReset, prevInit, reinit>>

(***************************************************************************)
(* Specifications                                                          *)
(***************************************************************************)
ValidTimeSteps == {dt \in TimeSteps : RLt(Zero, dt)}

\* arguments of initializeForIsland that matter for the island at hand
PastTheEnd(island) == IF HasUnmappedBody(island) THEN VelocityIndices ELSE {0}

\* <<dt, island>>: every island with a valid time step, and the island of the
\* box with every time step
CallerIslands == {"iBox", "iKin", "iBoth", "iCrowd"} \cup InvalidIslands
InitializeArguments ==
    (ValidTimeSteps \X CallerIslands) \cup (TimeSteps \X {"iBox"})

\* The velocity fields the free caller hands over
CallerVelocities == {bv \in BoxVelocities : bv.w = VZero}

\* Any caller: every operation may be called at any time, initializeForIsland
\* with any arguments
Next ==
    \/ \E bv \in CallerVelocities : nbCalls < MaxCalls /\ SetVelocityBuffers(bv) /\ UNCHANGED twin
    \/ \E args \in InitializeArguments, asAllocated \in UninitializedDecimals :
          \E pastTheEnd \in PastTheEnd(args[2]) :
             /\ nbCalls < MaxCalls
             /\ InitializeForIsland(args[1], args[2], asAllocated, pastTheEnd) /\ UNCHANGED twin
    \/ nbCalls < MaxCalls /\ WarmStart /\ UNCHANGED twin
    \/ nbCalls < MaxCalls /\ ResetTotalPenetrationImpulse /\ UNCHANGED twin
    \/ nbCalls < MaxCalls /\ SolvePenetrationConstraints /\ UNCHANGED twin
    \/ nbCalls < MaxCalls /\ SolveFrictionConstraints /\ UNCHANGED twin
    \/ nbCalls < MaxCalls /\ StoreImpulses /\ UNCHANGED twin
    \/ nbCalls < MaxCalls /\ Cleanup /\ UNCHANGED twin

Spec == Init /\ [][Next]_vars

\* The islands the engine's driver solves in the pipeline specification
PipelineIslands == {"iBox", "iBoth", "iBall", "iSlide", "iStack", "iPinch"}

\* the driver has calls left and the last call was one of ops
After(ops) == nbCalls < MaxPipelineCalls /\ lastOp \in ops

\* The engine's driver: the solver is configured once, then per island
\* initialize, warm start, iterate (reset, penetration sweep, friction sweep),
\* store, cleanup
NextPipeline ==
    \/ \E b \in BOOLEAN : After({"ContactSolver"}) /\ SetIsWarmStartingActive(b) /\ UNCHANGED twin
    \/ \E b \in BOOLEAN : After({"ContactSolver"}) /\ SetIsSplitImpulseActive(b) /\ UNCHANGED twin
    \/ \E bv \in BoxVelocities :
          After({"ContactSolver", "cleanup"}) /\ SetVelocityBuffers(bv) /\ UNCHANGED twin
    \/ \E dt \in ValidTimeSteps, island \in PipelineIslands,
          asAllocated \in UninitializedDecimals :
          /\ After({"ContactSolver", "cleanup"})
          /\ ~mSplitLinearVelocities.isNull
          /\ InitializeForIsland(dt, island, asAllocated, 0) /\ UNCHANGED twin
    \/ After({"initializeForIsland"}) /\ WarmStart /\ UNCHANGED twin
    \/ After({"warmStart", "solveFrictionConstraints"}) /\ ResetTotalPenetrationImpulse /\ UNCHANGED twin
    \/ After({"resetTotalPenetrationImpulse"}) /\ SolvePenetrationConstraints /\ UNCHANGED twin
    \/ After({"solvePenetrationConstraints"}) /\ SolveFrictionConstraints /\ UNCHANGED twin
    \/ After({"solveFrictionConstraints"}) /\ StoreImpulses /\ UNCHANGED twin
    \/ After({"storeImpulses"}) /\ Cleanup /\ UNCHANGED twin

SpecPipeline == Init /\ [][NextPipeline]_vars

\* A caller that initializes one island as the engine does and then calls
\* resetTotalPenetrationImpulse and the two sweeps in any order
NextSweeps ==
    \/ \E bv \in BoxVelocities : lastOp = "ContactSolver" /\ SetVelocityBuffers(bv) /\ UNCHANGED twin
    \/ \E dt \in ValidTimeSteps, island \in PipelineIslands,
          asAllocated \in UninitializedDecimals :
          /\ lastOp = "ContactSolver"
          /\ ~mSplitLinearVelocities.isNull
          /\ InitializeForIsland(dt, island, asAllocated, 0) /\ UNCHANGED twin
    \/ nbCalls < MaxSweepCalls /\ ~Idle /\ ResetTotalPenetrationImpulse /\ UNCHANGED twin
    \/ nbCalls < MaxSweepCalls /\ ~Idle /\ SolvePenetrationConstraints /\ UNCHANGED twin
    \/ nbCalls < MaxSweepCalls /\ ~Idle /\ SolveFrictionConstraints /\ UNCHANGED twin

SpecSweeps == Init /\ [][NextSweeps]_vars

(***************************************************************************)
(* Two solvers on the same inputs.  The solver of the state variables and  *)
(* a second one, twin, are run through the same calls with the same        *)
(* arguments; twin has the other value of                                  *)
(* mIsSolveFrictionAtContactManifoldCenterActive.                          *)
(***************************************************************************)
\* calls of the solver's operations in one run of the two solvers
MaxToggleCalls == 9

ToggleIslands == {"iBox", "iStack"}

\* the second solver t after the operation op with the argument arg
TwinStep(t, op, arg) ==
    IF t.status # "ok" THEN t
    ELSE CASE op = "setVelocityBuffers" ->
                [t EXCEPT !.vel = [lin |-> LinearBuffer(arg), ang |-> AngularBuffer(arg)],
                          !.split = [lin |-> ZeroBuffer, ang |-> ZeroBuffer]]
           [] op = "initializeForIsland" ->
                With(InitManifolds(Island(arg.island).contactManifolds, 1,
                        [status |-> "ok", pens |-> <<>>, frics |-> <<>>, manifolds |-> <<>>,
                         contactPoints |-> t.contactPoints, overrun |-> FALSE],
                        [lin |-> t.vel.lin, ang |-> t.vel.ang,
                         warm |-> mIsWarmStartingActive,
                         pastTheEnd |-> 0, manifoldCache |-> t.contactManifolds,
                         massAsAllocated |-> arg.asAllocated,
                         totalAsAllocated |-> arg.asAllocated,
                         atCenter |-> ~mIsSolveFrictionAtContactManifoldCenterActive,
                         capacity |-> PenetrationCapacity(Len(Island(arg.island).contactManifolds))]),
                  LAMBDA r : [t EXCEPT !.status = r.status, !.timeStep = arg.dt,
                                       !.pens = r.pens, !.frics = r.frics,
                                       !.contactPoints = r.contactPoints])
           [] op = "warmStart" ->
                With(WarmStartPenetrationLoop(1, t.vel, t.pens),
                  LAMBDA p :
                    With(WarmStartFrictionLoop(1, p.vel, t.frics),
                      LAMBDA f : [t EXCEPT !.pens = p.pens, !.frics = f.frics,
                                           !.vel = f.vel]))
           [] op = "resetTotalPenetrationImpulse" ->
                [t EXCEPT !.frics = [k \in 1..Len(t.frics) |->
                                        [t.frics[k] EXCEPT !.totalPenetrationImpulse = Zero]]]
           [] op = "solvePenetrationConstraints" ->
                With(SolvePenetrationLoop(1,
                        [vel |-> t.vel, split |-> t.split, pens |-> t.pens,
                         frics |-> t.frics],
                        t.timeStep, mIsSplitImpulseActive),
                  LAMBDA st : [t EXCEPT !.vel = st.vel, !.split = st.split,
                                        !.pens = st.pens, !.frics = st.frics])
           [] op = "solveFrictionConstraints" ->
                With(SolveFrictionLoop(1, t.vel, t.frics),
                  LAMBDA f : [t EXCEPT !.vel = f.vel, !.frics = f.frics])
           [] op = "storeImpulses" ->
                [t EXCEPT !.contactPoints =
                              StorePenetrationImpulses(1, t.pens, t.contactPoints),
                          !.contactManifolds =
                              StoreFrictionImpulses(1, t.frics, t.contactManifolds)]
           [] op = "cleanup" -> [t EXCEPT !.pens = <<>>, !.frics = <<>>]

\* the two solvers have calls left and the last call was one of ops
AfterBoth(ops) == nbCalls < MaxToggleCalls /\ lastOp \in ops

\* The engine's driver on the two solvers: the toggle is set on the first
\* one, then both are run in the order of the pipeline
NextToggle ==
    \/ \E b \in BOOLEAN :
          /\ AfterBoth({"ContactSolver"}) /\ mLinearVelocities.isNull
          /\ SetIsSolveFrictionAtContactManifoldCenterActive(b)
          /\ UNCHANGED twin
    \/ \E bv \in BoxVelocities :
          /\ AfterBoth({"ContactSolver", "cleanup"})
          /\ SetVelocityBuffers(bv)
          /\ twin' = TwinStep(twin, "setVelocityBuffers", bv)
    \/ \E dt \in ValidTimeSteps, island \in ToggleIslands,
          asAllocated \in UninitializedDecimals :
          /\ AfterBoth({"ContactSolver", "cleanup"})
          /\ ~mSplitLinearVelocities.isNull
          /\ InitializeForIsland(dt, island, asAllocated, 0)
          /\ twin' = TwinStep(twin, "initializeForIsland",
                              [dt |-> dt, island |-> island, asAllocated |-> asAllocated])
    \/ /\ AfterBoth({"initializeForIsland"}) /\ WarmStart
       /\ twin' = TwinStep(twin, "warmStart", 0)
    \/ /\ AfterBoth({"warmStart", "solveFrictionConstraints"})
       /\ ResetTotalPenetrationImpulse
       /\ twin' = TwinStep(twin, "resetTotalPenetrationImpulse", 0)
    \/ /\ AfterBoth({"resetTotalPenetrationImpulse"}) /\ SolvePenetrationConstraints
       /\ twin' = TwinStep(twin, "solvePenetrationConstraints", 0)
    \/ /\ AfterBoth({"solvePenetrationConstraints"}) /\ SolveFrictionConstraints
       /\ twin' = TwinStep(twin, "solveFrictionConstraints", 0)
    \/ /\ AfterBoth({"solveFrictionConstraints"}) /\ StoreImpulses
       /\ twin' = TwinStep(twin, "storeImpulses", 0)
    \/ /\ AfterBoth({"storeImpulses"}) /\ Cleanup
       /\ twin' = TwinStep(twin, "cleanup", 0)

SpecToggle == Init /\ [][NextToggle]_vars

(***************************************************************************)
(* Properties                                                              *)
(***************************************************************************)
SweepOperations ==
    {"warmStart", "solvePenetrationConstraints", "solveFrictionConstraints", "storeImpulses"}

\* C1: between initializeForIsland and cleanup, after every operation and with
\* split impulse on or off, every penetration constraint has
\* penetrationImpulse >= 0 and penetrationSplitImpulse >= 0
C1_ImpulsesNonNegative ==
    \A k \in 1..Len(mPenetrationConstraints.elems) :
        /\ RLe(Zero, mPenetrationConstraints.elems[k].penetrationImpulse)
        /\ RLe(Zero, mPenetrationConstraints.elems[k].penetrationSplitImpulse)

\* a second penetration sweep has run: one contact pushes in both passes,
\* another one is held at zero
C1_Witness ==
    /\ lastOp = "solvePenetrationConstraints" /\ pc = "running"
    /\ totalReset /\ nbCalls >= 6
    /\ \E k \in 1..Len(mPenetrationConstraints.elems) :
          /\ RLt(Zero, mPenetrationConstraints.elems[k].penetrationImpulse)
          /\ RLt(Zero, mPenetrationConstraints.elems[k].penetrationSplitImpulse)
    /\ \E k \in 1..Len(mPenetrationConstraints.elems) :
          mPenetrationConstraints.elems[k].penetrationImpulse = Zero

\* C2: at the end of every solveFrictionConstraints call every friction
\* constraint has |friction1Impulse|, |friction2Impulse| and
\* |frictionTwistImpulse| at most frictionCoefficient * totalPenetrationImpulse
C2_FrictionWithinCone ==
    lastOp = "solveFrictionConstraints" =>
        \A k \in 1..Len(mFrictionConstraints.elems) :
            LET fc == mFrictionConstraints.elems[k]
                limit == RMul(fc.frictionCoefficient, fc.totalPenetrationImpulse)
            IN  /\ RLe(RAbs(fc.friction1Impulse), limit)
                /\ RLe(RAbs(fc.friction2Impulse), limit)
                /\ RLe(RAbs(fc.frictionTwistImpulse), limit)

\* the second friction sweep of an island ends with a friction impulse on the
\* limit of a loaded manifold
C2_Witness ==
    /\ lastOp = "solveFrictionConstraints" /\ pc = "running" /\ nbCalls >= 8
    /\ \E k \in 1..Len(mFrictionConstraints.elems) :
          LET fc == mFrictionConstraints.elems[k]
              limit == RMul(fc.frictionCoefficient, fc.totalPenetrationImpulse)
          IN  /\ RLt(Zero, limit)
              /\ RAbs(fc.friction1Impulse) = limit

\* C3: at the end of every friction sweep every coordinate of the rolling
\* resistance impulse lies in [-L, L] with L = rollingResistanceFactor *
\* totalPenetrationImpulse, and the rolling step changes the angular
\* velocities by the difference between the clamped and the previous impulse
C3_RollingResistanceBounded ==
    \A k \in 1..Len(mFrictionConstraints.elems) :
        LET fc == mFrictionConstraints.elems[k]
            limit == RMul(fc.rollingResistanceFactor, fc.totalPenetrationImpulse)
            vel == [lin |-> mLinearVelocities.elems, ang |-> mAngularVelocities.elems]
            step == SolveRollingResistance(vel, fc)
            applied == VSub(step.fc.rollingResistanceImpulse, fc.rollingResistanceImpulse)
        IN  /\ lastOp = "solveFrictionConstraints" =>
                \A x \in 1..3 : RLe(RAbs(fc.rollingResistanceImpulse[x]), limit)
            /\ (pc = "running" /\ totalReset) =>
                /\ \A x \in 1..3 : RLe(RAbs(step.fc.rollingResistanceImpulse[x]), limit)
                /\ step.vel.ang[fc.indexBody1] =
                      VSub(vel.ang[fc.indexBody1],
                           MVec(fc.inverseInertiaTensorBody1, applied))
                /\ step.vel.ang[fc.indexBody2] =
                      VAdd(vel.ang[fc.indexBody2],
                           MVec(fc.inverseInertiaTensorBody2, applied))

\* a friction sweep ends with a rolling resistance impulse cut to the limit
C3_Witness ==
    /\ lastOp = "solveFrictionConstraints" /\ pc = "running"
    /\ \E k \in 1..Len(mFrictionConstraints.elems) :
          LET fc == mFrictionConstraints.elems[k]
              limit == RMul(fc.rollingResistanceFactor, fc.totalPenetrationImpulse)
          IN  /\ RLt(Zero, limit)
              /\ \E x \in 1..3 : RAbs(fc.rollingResistanceImpulse[x]) = limit

\* C4: after initializeForIsland the vectors frictionVector1, frictionVector2
\* and normal of every friction constraint have length one, are mutually
\* orthogonal and satisfy frictionVector1 x frictionVector2 = normal
C4_FrictionBasisOrthonormal ==
    \A k \in 1..Len(mFrictionConstraints.elems) :
        LET fc == mFrictionConstraints.elems[k]
        IN  /\ VDot(fc.frictionVector1, fc.frictionVector1) = One
            /\ VDot(fc.frictionVector2, fc.frictionVector2) = One
            /\ VDot(fc.normal, fc.normal) = One
            /\ VDot(fc.frictionVector1, fc.frictionVector2) = Zero
            /\ VDot(fc.frictionVector1, fc.normal) = Zero
            /\ VDot(fc.frictionVector2, fc.normal) = Zero
            /\ VCross(fc.frictionVector1, fc.frictionVector2) = fc.normal

\* initializeForIsland has just built one friction constraint whose relative
\* velocity at the centroid has no tangential part and one where it has
C4_Witness ==
    /\ lastOp = "initializeForIsland" /\ pc = "running"
    /\ \E k, j \in 1..Len(mFrictionConstraints.elems) :
          LET fk == mFrictionConstraints.elems[k]
              fj == mFrictionConstraints.elems[j]
              vel == [lin |-> mLinearVelocities.elems, ang |-> mAngularVelocities.elems]
          IN  /\ TangentVelocity(RelativeVelocity(vel, fk, fk.r1Friction, fk.r2Friction),
                                 fk.normal) = VZero
              /\ TangentVelocity(RelativeVelocity(vel, fj, fj.r1Friction, fj.r2Friction),
                                 fj.normal) # VZero

\* C5: after initializeForIsland each of inversePenetrationMass,
\* inverseFriction1Mass, inverseFriction2Mass and inverseTwistFrictionMass is
\* 1/K when its denominator K is positive and 0 when K is not positive
C5_InverseMassesFromDenominators ==
    /\ \A k \in 1..Len(mPenetrationConstraints.elems) :
          LET c == mPenetrationConstraints.elems[k]
              K == ConstraintMass(c.massInverseBody1, c.massInverseBody2,
                                  c.inverseInertiaTensorBody1, c.inverseInertiaTensorBody2,
                                  c.r1, c.r2, c.r1CrossN, c.r2CrossN, c.normal)
          IN  c.inversePenetrationMass = IF RLt(Zero, K) THEN RDiv(One, K) ELSE Zero
    /\ \A k \in 1..Len(mFrictionConstraints.elems) :
          LET c == mFrictionConstraints.elems[k]
              K1 == ConstraintMass(c.massInverseBody1, c.massInverseBody2,
                                   c.inverseInertiaTensorBody1, c.inverseInertiaTensorBody2,
                                   c.r1Friction, c.r2Friction, c.r1CrossT1, c.r2CrossT1,
                                   c.frictionVector1)
              K2 == ConstraintMass(c.massInverseBody1, c.massInverseBody2,
                                   c.inverseInertiaTensorBody1, c.inverseInertiaTensorBody2,
                                   c.r1Friction, c.r2Friction, c.r1CrossT2, c.r2CrossT2,
                                   c.frictionVector2)
              Kt == RAdd(VDot(c.normal, MVec(c.inverseInertiaTensorBody1, c.normal)),
                         VDot(c.normal, MVec(c.inverseInertiaTensorBody2, c.normal)))
          IN  /\ c.inverseFriction1Mass = IF RLt(Zero, K1) THEN RDiv(One, K1) ELSE Zero
              /\ c.inverseFriction2Mass = IF RLt(Zero, K2) THEN RDiv(One, K2) ELSE Zero
              /\ c.inverseTwistFrictionMass = IF RLt(Zero, Kt) THEN RDiv(One, Kt) ELSE Zero

\* C6: over every sequence of initializeForIsland and cleanup calls each
\* allocated array is held by one of the three pointers or has been released,
\* and cleanup leaves the three pointers null with nothing allocated
C6_NoArrayLeaked ==
    /\ heapArrays = NbLivePointers
    /\ lastOp = "cleanup" => (Idle /\ heapArrays = 0)

\* C7: warmStart, solvePenetrationConstraints, solveFrictionConstraints and
\* storeImpulses called while no island is initialized are rejected and do
\* not go through the constraint arrays
C7_IdleCallsRejected ==
    (lastOp \in SweepOperations /\ Idle) => (pc = "aborted" /\ ~nullAccess)

PreconditionViolated(call) ==
    \/ Island(call.island).isNull
    \/ Len(Island(call.island).contactManifolds) = 0
    \/ \E k \in 1..Len(Island(call.island).contactManifolds) :
          ManifoldPoints(Island(call.island).contactManifolds[k]) = <<>>
    \/ HasUnmappedBody(call.island)
    \/ ~RLt(Zero, call.dt)

\* C8: initializeForIsland called with a null island, an island without
\* manifold, a manifold without contact point, an unmapped body or dt <= 0
\* aborts and has created no constraint record
C8_InitializeRejects ==
    [][(/\ lastOp' = "initializeForIsland"
        /\ nbCalls' = nbCalls + 1
        /\ PreconditionViolated(initCall'))
       => /\ pc' = "aborted"
          /\ \/ UNCHANGED arrays
             \/ /\ mPenetrationConstraints'.elems = <<>>
                /\ mFrictionConstraints'.elems = <<>>]_vars

\* C9: warmStart leaves friction1Impulse and friction2Impulse as they were in
\* every friction constraint with a resting contact whose old friction
\* vectors equal the current ones
C9_ReprojectionIdentity ==
    [][(lastOp' = "warmStart" /\ nbCalls' = nbCalls + 1)
       => \A k \in 1..Len(mFrictionConstraints.elems) :
             LET fc == mFrictionConstraints.elems[k]
             IN  (/\ fc.hasAtLeastOneRestingContactPoint
                  /\ fc.oldFrictionVector1 = fc.frictionVector1
                  /\ fc.oldFrictionVector2 = fc.frictionVector2)
                 => /\ mFrictionConstraints'.elems[k].friction1Impulse = fc.friction1Impulse
                    /\ mFrictionConstraints'.elems[k].friction2Impulse = fc.friction2Impulse]_vars

\* warmStart has run on a constraint with a resting contact, an unchanged
\* tangent basis and impulses along both friction vectors
C9_Witness ==
    /\ lastOp = "warmStart" /\ pc = "running"
    /\ \E k \in 1..Len(mFrictionConstraints.elems) :
          LET fc == mFrictionConstraints.elems[k]
          IN  /\ fc.hasAtLeastOneRestingContactPoint
              /\ fc.oldFrictionVector1 = fc.frictionVector1
              /\ fc.oldFrictionVector2 = fc.frictionVector2
              /\ fc.friction1Impulse # Zero
              /\ fc.friction2Impulse # Zero

\* C10: storeImpulses, cleanup and initializeForIsland again on the same
\* island, velocity buffers and dt reproduce the inverse masses of the
\* previous initializeForIsland
C10_ReinitializeReproducesMasses == reinit # "differs"

(***************************************************************************)
(* The velocity arrays and the sweep state as the operations read them     *)
(***************************************************************************)
Velocities == [lin |-> mLinearVelocities.elems, ang |-> mAngularVelocities.elems]
SplitVelocities ==
    [lin |-> mSplitLinearVelocities.elems, ang |-> mSplitAngularVelocities.elems]
SweepState ==
    [vel |-> Velocities, split |-> SplitVelocities,
     pens |-> mPenetrationConstraints.elems, frics |-> mFrictionConstraints.elems]

\* the linear velocities changed from before to after as by -P on body 1 and
\* +P on body 2 of the constraint c, for one vector P, and not otherwise
OppositeLinearImpulses(before, after, c) ==
    LET d1 == VSub(after.lin[c.indexBody1], before.lin[c.indexBody1])
        d2 == VSub(after.lin[c.indexBody2], before.lin[c.indexBody2])
    IN  /\ \A b \in VelocityIndices \ {c.indexBody1, c.indexBody2} :
              after.lin[b] = before.lin[b]
        /\ IF c.massInverseBody1 = Zero THEN d1 = VZero
           ELSE d2 = VScale(VNeg(VDivS(d1, c.massInverseBody1)), c.massInverseBody2)
        /\ c.massInverseBody2 = Zero => d2 = VZero

\* C11: each impulse application of one constraint (penetration and friction
\* part of warmStart, penetration sweep, split impulse sub-step, tangent 1 and
\* tangent 2 of the friction sweep) changes the linear velocities by
\* -Minv1 * P on body 1 and +Minv2 * P on body 2 for one and the same P
C11_OppositeLinearImpulses ==
    (pc = "running" /\ ~Idle) =>
        /\ \A k \in 1..Len(mPenetrationConstraints.elems) :
              LET c == mPenetrationConstraints.elems[k]
                  step == SolvePenetrationConstraint(SweepState, k, mTimeStep,
                                                     mIsSplitImpulseActive)
              IN  /\ OppositeLinearImpulses(Velocities,
                                            WarmStartPenetration(Velocities, c).vel, c)
                  /\ OppositeLinearImpulses(Velocities, step.vel, c)
                  /\ OppositeLinearImpulses(SplitVelocities, step.split, c)
        /\ \A k \in 1..Len(mFrictionConstraints.elems) :
              LET c == mFrictionConstraints.elems[k]
              IN  /\ OppositeLinearImpulses(Velocities,
                                            WarmStartFriction(Velocities, c).vel, c)
                  /\ OppositeLinearImpulses(Velocities, SolveFriction1(Velocities, c).vel, c)
                  /\ OppositeLinearImpulses(Velocities, SolveFriction2(Velocities, c).vel, c)

\* a penetration sweep has pushed two dynamic bodies apart: the velocities of
\* both differ from those handed to initializeForIsland
C11_Witness ==
    /\ lastOp = "solvePenetrationConstraints" /\ pc = "running"
    /\ prevInit.island = "iStack"
    /\ \E k \in 1..Len(mPenetrationConstraints.elems) :
          LET c == mPenetrationConstraints.elems[k]
          IN  /\ c.massInverseBody1 # Zero /\ c.massInverseBody2 # Zero
              /\ RLt(Zero, c.penetrationImpulse)
              /\ mLinearVelocities.elems[c.indexBody1] # prevInit.lin[c.indexBody1]
              /\ mLinearVelocities.elems[c.indexBody2] # prevInit.lin[c.indexBody2]

\* C12: of the external objects, initializeForIsland writes only the
\* isResting flag of contact points and storeImpulses only the cached impulses
\* and friction vectors; warmStart, resetTotalPenetrationImpulse,
\* solvePenetrationConstraints, solveFrictionConstraints and cleanup leave
\* every contact point and contact manifold as it was
C12_ExternalWritesConfined ==
    [][(nbCalls' = nbCalls + 1) =>
         /\ lastOp' \in {"warmStart", "resetTotalPenetrationImpulse",
                         "solvePenetrationConstraints", "solveFrictionConstraints",
                         "cleanup"}
               => UNCHANGED <<contactPoints, contactManifolds>>
         /\ lastOp' = "initializeForIsland"
               => /\ UNCHANGED contactManifolds
                  /\ \A c \in ContactPointIds :
                        contactPoints'[c].penetrationImpulse =
                            contactPoints[c].penetrationImpulse
         /\ lastOp' = "storeImpulses"
               => \A c \in ContactPointIds :
                     contactPoints'[c].isRestingContact = contactPoints[c].isRestingContact]_vars

\* storeImpulses has written an impulse to a contact point that
\* initializeForIsland had marked, and friction vectors to its manifold
C12_Witness ==
    /\ lastOp = "storeImpulses" /\ pc = "running"
    /\ \E k \in 1..Len(mPenetrationConstraints.elems) :
          LET c == mPenetrationConstraints.elems[k]
              m == mFrictionConstraints.elems[c.indexFrictionConstraint + 1].contactManifold
          IN  /\ contactPoints[c.contactPoint].isRestingContact
              /\ RLt(Zero, contactPoints[c.contactPoint].penetrationImpulse)
              /\ contactManifolds[m].frictionVector1 # VZero
              /\ contactManifolds[m].frictionImpulse1 # Zero

\* the velocity arrays as the last completed initializeForIsland read them
InitialVelocities == [lin |-> prevInit.lin, ang |-> prevInit.ang]

\* the denominator K of the inverse penetration mass of a constraint
PenetrationMassDenominator(c) ==
    ConstraintMass(c.massInverseBody1, c.massInverseBody2,
                   c.inverseInertiaTensorBody1, c.inverseInertiaTensorBody2,
                   c.r1, c.r2, c.r1CrossN, c.r2CrossN, c.normal)

\* one body of the contact is dynamic and the other one static
DynamicOnStatic(c) ==
    {RigidBody(ContactPoint(c.contactPoint).body1).type,
     RigidBody(ContactPoint(c.contactPoint).body2).type} = {"DYNAMIC", "STATIC"}

\* the case of the restitution claim: split impulse on, a single contact of
\* a dynamic with a static body, no accumulated impulse, K > 0 and an approach
\* faster than the threshold when initializeForIsland ran
RestitutionCase(c) ==
    /\ mIsSplitImpulseActive
    /\ DynamicOnStatic(c)
    /\ c.penetrationImpulse = Zero
    /\ RLt(Zero, PenetrationMassDenominator(c))
    /\ RLt(PenetrationJv(InitialVelocities, c), RNeg(RESTITUTION_VELOCITY_THRESHOLD))

\* C13: in that case one solvePenetrationConstraints call leaves the relative
\* normal velocity of the contact at -restitutionFactor times the relative
\* normal velocity initializeForIsland measured
C13_Restitution ==
    [][(/\ lastOp' = "solvePenetrationConstraints" /\ nbCalls' = nbCalls + 1
        /\ pc' = "running"
        /\ Len(mPenetrationConstraints.elems) = 1
        /\ RestitutionCase(mPenetrationConstraints.elems[1]))
       => LET c == mPenetrationConstraints.elems[1]
          IN  PenetrationJv(Velocities', c) =
                  RNeg(RMul(c.restitutionFactor, PenetrationJv(InitialVelocities, c)))]_vars

\* the box has hit the ground at normal speed 2 with restitution 1/2 and
\* leaves it at normal speed 1 after one penetration sweep
C13_Witness ==
    /\ lastOp = "solvePenetrationConstraints" /\ pc = "running"
    /\ mIsSplitImpulseActive
    /\ Len(mPenetrationConstraints.elems) = 1
    /\ LET c == mPenetrationConstraints.elems[1]
       IN  /\ DynamicOnStatic(c)
           /\ c.restitutionFactor = Rat(1, 2)
           /\ PenetrationJv(InitialVelocities, c) = Rat(-2, 1)
           /\ PenetrationJv(Velocities, c) = One
           /\ c.penetrationImpulse = Rat(3, 1)

\* the tangential part of the relative velocity at the centroid of the
\* manifold of the friction constraint fc, on the velocity arrays vel
CentroidTangentVelocity(vel, fc) ==
    TangentVelocity(RelativeVelocity(vel, fc, fc.r1Friction, fc.r2Friction), fc.normal)

\* t is the unit vector along v
UnitDirection(t, v) ==
    /\ VDot(t, t) = One
    /\ VCross(t, v) = VZero
    /\ RLt(Zero, VDot(t, v))

\* the solver works on the box (body 1) handed over with velocity (1, 0, 0)
\* on the static plane (body 2) with contact normal (0, 1, 0)
SlidingBox ==
    /\ pc = "running" /\ ~Idle
    /\ prevInit.island = "iSlide"
    /\ prevInit.lin[0] = Vec(1, 0, 0) /\ prevInit.ang[0] = VZero

\* C14: initializeForIsland sets frictionVector1 to the unit direction of a
\* non-zero tangential relative velocity at the centroid; for the sliding box
\* frictionVector1 = (1, 0, 0), and after the friction sweep friction1Impulse
\* is -0.5 * totalPenetrationImpulse
C14_SlidingFriction ==
    /\ (lastOp = "initializeForIsland" /\ pc = "running") =>
          \A k \in 1..Len(mFrictionConstraints.elems) :
             LET fc == mFrictionConstraints.elems[k]
             IN  CentroidTangentVelocity(Velocities, fc) # VZero
                    => UnitDirection(fc.frictionVector1,
                                     CentroidTangentVelocity(Velocities, fc))
    /\ SlidingBox =>
          LET fc == mFrictionConstraints.elems[1]
          IN  /\ fc.frictionCoefficient = Rat(1, 2)
              /\ fc.frictionVector1 = Vec(1, 0, 0)
              /\ lastOp = "solveFrictionConstraints" =>
                    fc.friction1Impulse = RNeg(RMul(Rat(1, 2), fc.totalPenetrationImpulse))

\* C14 as the code has it: the relative velocity is that of body 2 minus that
\* of body 1, so frictionVector1 of the sliding box is (-1, 0, 0), opposite to
\* the motion of the box; friction1Impulse is -0.5 * totalPenetrationImpulse
\* after the friction sweep
C14_SlidingFrictionOpposite ==
    /\ (lastOp = "initializeForIsland" /\ pc = "running") =>
          \A k \in 1..Len(mFrictionConstraints.elems) :
             LET fc == mFrictionConstraints.elems[k]
             IN  CentroidTangentVelocity(Velocities, fc) # VZero
                    => UnitDirection(fc.frictionVector1,
                                     CentroidTangentVelocity(Velocities, fc))
    /\ SlidingBox =>
          LET fc == mFrictionConstraints.elems[1]
          IN  /\ fc.frictionCoefficient = Rat(1, 2)
              /\ fc.frictionVector1 = Vec(-1, 0, 0)
              /\ lastOp = "solveFrictionConstraints" =>
                    fc.friction1Impulse = RNeg(RMul(Rat(1, 2), fc.totalPenetrationImpulse))

\* the friction sweep has run on the sliding box under a positive normal
\* impulse: friction1Impulse is negative and on the limit
C14_Witness ==
    /\ SlidingBox /\ lastOp = "solveFrictionConstraints"
    /\ LET fc == mFrictionConstraints.elems[1]
       IN  /\ fc.frictionVector1 = Vec(-1, 0, 0)
           /\ RLt(Zero, fc.totalPenetrationImpulse)
           /\ fc.friction1Impulse = RNeg(RMul(Rat(1, 2), fc.totalPenetrationImpulse))

\* the bias of the velocity solve of a penetration constraint
PenetrationBias(c) ==
    IF mIsSplitImpulseActive THEN c.restitutionBias
    ELSE RAdd(BiasPenetrationDepth(c, mTimeStep, FALSE), c.restitutionBias)

\* on the velocity arrays vel the constraint c does not approach faster than
\* its bias allows, and it pushes only where it holds with equality
Complementary(vel, c) ==
    LET slack == RAdd(PenetrationJv(vel, c), PenetrationBias(c))
    IN  /\ RLe(Zero, slack)
        /\ (c.penetrationImpulse = Zero \/ slack = Zero)

\* C15: right after solvePenetrationConstraints has processed a penetration
\* constraint with positive effective mass, Jv on the updated velocities has
\* Jv + bias >= 0 and penetrationImpulse = 0 or Jv + bias = 0; a contact
\* without restitution bias ends the sweep without approaching velocity
C15_Complementarity ==
    (pc = "running" /\ ~Idle) =>
        /\ \A k \in 1..Len(mPenetrationConstraints.elems) :
              RLt(Zero, PenetrationMassDenominator(mPenetrationConstraints.elems[k])) =>
                 LET step == SolvePenetrationConstraint(SweepState, k, mTimeStep,
                                                        mIsSplitImpulseActive)
                 IN  Complementary(step.vel, step.pens[k])
        /\ lastOp = "solvePenetrationConstraints" =>
              LET c == mPenetrationConstraints.elems[Len(mPenetrationConstraints.elems)]
              IN  RLt(Zero, PenetrationMassDenominator(c)) =>
                     /\ Complementary(Velocities, c)
                     /\ c.restitutionBias = Zero => RLe(Zero, PenetrationJv(Velocities, c))

\* a penetration sweep has brought the box to rest on the ground: the
\* contact pushes and its relative normal velocity is zero
C15_Witness ==
    /\ lastOp = "solvePenetrationConstraints" /\ pc = "running"
    /\ Len(mPenetrationConstraints.elems) = 1
    /\ LET c == mPenetrationConstraints.elems[1]
       IN  /\ DynamicOnStatic(c)
           /\ RLt(Zero, PenetrationMassDenominator(c))
           /\ c.restitutionBias = Zero
           /\ RLt(Zero, c.penetrationImpulse)
           /\ RLt(PenetrationJv(InitialVelocities, c), Zero)
           /\ PenetrationJv(Velocities, c) = RNeg(PenetrationBias(c))

\* the three denominators of the inverse masses of a friction constraint
FrictionMassDenominators(c) ==
    <<ConstraintMass(c.massInverseBody1, c.massInverseBody2,
                     c.inverseInertiaTensorBody1, c.inverseInertiaTensorBody2,
                     c.r1Friction, c.r2Friction, c.r1CrossT1, c.r2CrossT1,
                     c.frictionVector1),
      ConstraintMass(c.massInverseBody1, c.massInverseBody2,
                     c.inverseInertiaTensorBody1, c.inverseInertiaTensorBody2,
                     c.r1Friction, c.r2Friction, c.r1CrossT2, c.r2CrossT2,
                     c.frictionVector2),
      RAdd(VDot(c.normal, MVec(c.inverseInertiaTensorBody1, c.normal)),
           VDot(c.normal, MVec(c.inverseInertiaTensorBody2, c.normal)))>>

\* C16: initializeForIsland does not abort on a manifold whose contact normals
\* sum to the zero vector, on a zero effective mass or on a zero tangential
\* velocity, and a constraint without effective mass changes neither its
\* accumulated impulses nor any velocity in a later sweep
C16_DegeneraciesHandled ==
    /\ (lastOp = "initializeForIsland" /\ ~PreconditionViolated(initCall))
          => pc = "running"
    /\ (pc = "running" /\ ~Idle) =>
          /\ \A k \in 1..Len(mPenetrationConstraints.elems) :
                ~RLt(Zero, PenetrationMassDenominator(mPenetrationConstraints.elems[k])) =>
                   LET step == SolvePenetrationConstraint(SweepState, k, mTimeStep,
                                                          mIsSplitImpulseActive)
                   IN  /\ step.vel = Velocities
                       /\ step.split = SplitVelocities
                       /\ step.pens[k] = mPenetrationConstraints.elems[k]
          /\ totalReset =>
                \A k \in 1..Len(mFrictionConstraints.elems) :
                   LET fc == mFrictionConstraints.elems[k]
                       step == SolveFrictionConstraint(Velocities, fc)
                   IN  (\A x \in 1..3 : ~RLt(Zero, FrictionMassDenominators(fc)[x])) =>
                          /\ step.vel = Velocities
                          /\ step.fc = fc

\* C17: on the state initializeForIsland leaves, warmStart changes the
\* velocities for every penetration constraint with isRestingContact as the
\* penetration sweep does for deltaLambda = penetrationImpulse: body 1 by
\* -Minv1 * lambda * n and -Iinv1 * (r1 x n) * lambda, body 2 by
\* +Minv2 * lambda * n and +Iinv2 * (r2 x n) * lambda
C17_WarmStartAsSweep ==
    (lastOp = "initializeForIsland" /\ pc = "running") =>
        \A k \in 1..Len(mPenetrationConstraints.elems) :
            LET c == mPenetrationConstraints.elems[k]
            IN  c.isRestingContact =>
                   WarmStartPenetration(Velocities, c).vel =
                       ApplyPenetrationImpulse(Velocities, c, c.penetrationImpulse)

\* C18: after initializeForIsland with warm starting enabled friction1Impulse,
\* friction2Impulse, frictionTwistImpulse and rollingResistanceImpulse of each
\* friction constraint equal the values cached on its contact manifold; with
\* warm starting disabled all four are zero
C18_FrictionImpulsesFromCache ==
    (lastOp = "initializeForIsland" /\ pc = "running") =>
        \A k \in 1..Len(mFrictionConstraints.elems) :
            LET fc == mFrictionConstraints.elems[k]
                cache == contactManifolds[fc.contactManifold]
            IN  IF mIsWarmStartingActive
                THEN /\ fc.friction1Impulse = cache.frictionImpulse1
                     /\ fc.friction2Impulse = cache.frictionImpulse2
                     /\ fc.frictionTwistImpulse = cache.frictionTwistImpulse
                     /\ fc.rollingResistanceImpulse = cache.rollingResistanceImpulse
                ELSE /\ fc.friction1Impulse = Zero
                     /\ fc.friction2Impulse = Zero
                     /\ fc.frictionTwistImpulse = Zero
                     /\ fc.rollingResistanceImpulse = VZero

\* C19: storeImpulses writes penetrationImpulse of each penetration constraint
\* to its contact point; initializeForIsland seeds penetrationImpulse with the
\* value stored on the contact point when warm starting is enabled and with 0
\* when it is disabled, and sets penetrationSplitImpulse to 0
C19_NormalImpulseRoundTrip ==
    /\ (lastOp = "storeImpulses" /\ pc = "running") =>
          \A k \in 1..Len(mPenetrationConstraints.elems) :
             LET c == mPenetrationConstraints.elems[k]
             IN  contactPoints[c.contactPoint].penetrationImpulse = c.penetrationImpulse
    /\ (lastOp = "initializeForIsland" /\ pc = "running") =>
          \A k \in 1..Len(mPenetrationConstraints.elems) :
             LET c == mPenetrationConstraints.elems[k]
             IN  /\ c.penetrationImpulse =
                       IF mIsWarmStartingActive
                       THEN contactPoints[c.contactPoint].penetrationImpulse
                       ELSE Zero
                 /\ c.penetrationSplitImpulse = Zero

\* an island has been solved, stored and cleaned up, and initializeForIsland
\* has seeded a constraint of the same manifold with the positive impulse
\* stored on its contact point
C19_Witness ==
    /\ lastOp = "initializeForIsland" /\ pc = "running"
    /\ stage = "initialized" /\ nbCalls >= 8
    /\ mIsWarmStartingActive
    /\ \E k \in 1..Len(mPenetrationConstraints.elems) :
          LET c == mPenetrationConstraints.elems[k]
          IN  /\ c.isRestingContact
              /\ RLt(Zero, c.penetrationImpulse)
              /\ c.penetrationImpulse = contactPoints[c.contactPoint].penetrationImpulse

\* the sum of penetrationImpulse over the constraints k..Len(pens) whose
\* indexFrictionConstraint is index
RECURSIVE SumPenetrationImpulses(_, _, _)
SumPenetrationImpulses(pens, k, index) ==
    IF k > Len(pens) THEN Zero
    ELSE RAdd(IF pens[k].indexFrictionConstraint = index
              THEN pens[k].penetrationImpulse ELSE Zero,
              SumPenetrationImpulses(pens, k + 1, index))

\* totalPenetrationImpulse of every friction constraint is the sum of the
\* penetration impulses of its penetration constraints
TotalsAreSums ==
    \A f \in 1..Len(mFrictionConstraints.elems) :
        mFrictionConstraints.elems[f].totalPenetrationImpulse =
            SumPenetrationImpulses(mPenetrationConstraints.elems, 1, f - 1)

\* C20: after every solvePenetrationConstraints call, whatever preceded it,
\* totalPenetrationImpulse of each friction constraint is the sum of the
\* current penetrationImpulse of the penetration constraints that refer to it
C20_TotalIsSumAfterEverySweep ==
    (lastOp = "solvePenetrationConstraints" /\ pc = "running") => TotalsAreSums

\* C20 as the code has it: the reset is resetTotalPenetrationImpulse, an
\* operation of its own; after a solvePenetrationConstraints call that
\* directly follows it the totals are the sums
C20_TotalIsSumAfterReset ==
    [][(/\ lastOp = "resetTotalPenetrationImpulse"
        /\ lastOp' = "solvePenetrationConstraints" /\ nbCalls' = nbCalls + 1
        /\ pc' = "running")
       => TotalsAreSums']_vars

\* resetTotalPenetrationImpulse and then solvePenetrationConstraints have run
\* on a manifold with two contact points, one of which pushes
C20_Witness ==
    /\ lastOp = "solvePenetrationConstraints" /\ pc = "running"
    /\ totalReset /\ nbCalls = 3
    /\ TotalsAreSums
    /\ \E k, j \in 1..Len(mPenetrationConstraints.elems) :
          /\ k # j
          /\ mPenetrationConstraints.elems[k].indexFrictionConstraint =
                mPenetrationConstraints.elems[j].indexFrictionConstraint
          /\ RLt(Zero, mPenetrationConstraints.elems[k].penetrationImpulse)

(***************************************************************************)
(* Gauss-Seidel ordering of the sweeps                                     *)
(***************************************************************************)
\* the sweep state after the penetration constraints 1..n of the current
\* arrays have been processed, in that order
RECURSIVE PenetrationPrefix(_)
PenetrationPrefix(n) ==
    IF n = 0 THEN SweepState
    ELSE SolvePenetrationConstraint(PenetrationPrefix(n - 1), n, mTimeStep,
                                    mIsSplitImpulseActive)

\* the velocities and friction constraints after the friction constraints
\* 1..n of the current arrays have been processed, in that order
RECURSIVE FrictionPrefix(_)
FrictionPrefix(n) ==
    IF n = 0 THEN [vel |-> Velocities, frics |-> mFrictionConstraints.elems]
    ELSE With(FrictionPrefix(n - 1),
           LAMBDA p :
             With(SolveFrictionConstraint(p.vel, p.frics[n]),
               LAMBDA r : [vel |-> r.vel, frics |-> [p.frics EXCEPT ![n] = r.fc]]))

\* the accumulated impulse of penetration constraint k when its J*v is read
\* from the velocity arrays vel
PenetrationImpulseFrom(vel, k) ==
    LET c == mPenetrationConstraints.elems[k]
    IN  AccumulatePenetrationImpulse(c.penetrationImpulse,
            DeltaLambdaPenetration(c, PenetrationJv(vel, c),
                BiasPenetrationDepth(c, mTimeStep, mIsSplitImpulseActive),
                mIsSplitImpulseActive))

\* the four steps of friction constraint k read, in turn, the velocities vel,
\* those after tangent 1, those after tangent 2 and those after the twist
FrictionStepsChained(vel, k, after) ==
    LET c == mFrictionConstraints.elems[k]
        s1 == SolveFriction1(vel, c)
        s2 == SolveFriction2(s1.vel, s1.fc)
        s3 == SolveFrictionTwist(s2.vel, s2.fc)
        s4 == SolveRollingResistance(s3.vel, s3.fc)
    IN  /\ after.friction1Impulse =
              ClampFrictionImpulse(c.friction1Impulse,
                  RMul(RNeg(FrictionJv(vel, c, c.frictionVector1)), c.inverseFriction1Mass),
                  FrictionLimit(c))
        /\ after.friction2Impulse =
              ClampFrictionImpulse(c.friction2Impulse,
                  RMul(RNeg(FrictionJv(s1.vel, c, c.frictionVector2)),
                       c.inverseFriction2Mass),
                  FrictionLimit(c))
        /\ after.frictionTwistImpulse =
              ClampFrictionImpulse(c.frictionTwistImpulse,
                  RMul(RNeg(VDot(VSub(s2.vel.ang[c.indexBody2], s2.vel.ang[c.indexBody1]),
                                 c.normal)),
                       c.inverseTwistFrictionMass),
                  FrictionLimit(c))
        /\ RLt(Zero, c.rollingResistanceFactor) =>
              after.rollingResistanceImpulse =
                  VClamp(VAdd(c.rollingResistanceImpulse,
                              MVec(c.inverseRollingResistance,
                                   VNeg(VSub(s3.vel.ang[c.indexBody2],
                                             s3.vel.ang[c.indexBody1])))),
                         RollingLimit(c))

\* C21: within one sweep the constraints are processed in ascending array
\* index; constraint i computes its J*v from the velocity arrays that hold the
\* impulses of the constraints before it, and inside one friction constraint
\* tangent 2 reads the velocities left by tangent 1, the twist those left by
\* tangent 2 and the rolling resistance those left by the twist
C21_GaussSeidelOrder ==
    [][(nbCalls' = nbCalls + 1 /\ pc' = "running" /\ ~Idle) =>
         /\ lastOp' = "solvePenetrationConstraints" =>
               /\ \A k \in 1..Len(mPenetrationConstraints.elems) :
                     mPenetrationConstraints'.elems[k].penetrationImpulse =
                         PenetrationImpulseFrom(PenetrationPrefix(k - 1).vel, k)
               /\ Velocities' =
                     PenetrationPrefix(Len(mPenetrationConstraints.elems)).vel
         /\ lastOp' = "solveFrictionConstraints" =>
               /\ \A k \in 1..Len(mFrictionConstraints.elems) :
                     FrictionStepsChained(FrictionPrefix(k - 1).vel, k,
                                          mFrictionConstraints'.elems[k])
               /\ Velocities' = FrictionPrefix(Len(mFrictionConstraints.elems)).vel]_vars

\* the first penetration sweep on two contacts of the box has ended: the
\* first constraint pushed, and the impulse of the second one is not the one
\* the velocities before the sweep would have given
C21_Witness ==
    /\ lastOp = "solvePenetrationConstraints" /\ pc = "running" /\ nbCalls = 4
    /\ Len(mPenetrationConstraints.elems) >= 2
    /\ LET c1 == mPenetrationConstraints.elems[1]
           c2 == mPenetrationConstraints.elems[2]
       IN  /\ c1.indexBody1 = c2.indexBody1
           /\ RLt(Zero, c1.penetrationImpulse)
           /\ c2.penetrationImpulse #
                 AccumulatePenetrationImpulse(Zero,
                     DeltaLambdaPenetration(c2, PenetrationJv(InitialVelocities, c2),
                         BiasPenetrationDepth(c2, mTimeStep, mIsSplitImpulseActive),
                         mIsSplitImpulseActive))

(***************************************************************************)
(* Split impulse                                                           *)
(***************************************************************************)
\* the sweep state st with the penetration depth of constraint k set to depth
AtDepth(st, k, depth) == [st EXCEPT !.pens[k].penetrationDepth = depth]

\* -(beta / dt) * max(0, depth - SLOP), the Baumgarte bias of a constraint
BaumgarteBias(c, beta) ==
    RNeg(RMul(RDiv(beta, mTimeStep), RMax(Zero, RSub(c.penetrationDepth, SLOP))))

\* one pass for constraint k from the sweep state pre, split impulse enabled:
\* the velocity solve has no Baumgarte bias and does not depend on the depth
\* or on the split arrays; the split sub-step does not depend on the
\* velocity arrays or on penetrationImpulse
SplitSeparated(pre, k) ==
    LET c == pre.pens[k]
        step == SolvePenetrationConstraint(pre, k, mTimeStep, TRUE)
        shallow == SolvePenetrationConstraint(AtDepth(pre, k, Zero), k, mTimeStep, TRUE)
        deep == SolvePenetrationConstraint(AtDepth(pre, k, Rat(2, 1)), k, mTimeStep, TRUE)
        otherSplit == SolvePenetrationConstraint([pre EXCEPT !.split = pre.vel], k,
                                                 mTimeStep, TRUE)
        otherVel == SolvePenetrationConstraint(
                        [pre EXCEPT !.vel = [lin |-> ZeroBuffer, ang |-> ZeroBuffer],
                                    !.pens[k].penetrationImpulse = One],
                        k, mTimeStep, TRUE)
    IN  /\ step.pens[k].penetrationImpulse =
              RMax(RAdd(c.penetrationImpulse,
                        RMul(RNeg(RAdd(PenetrationJv(pre.vel, c), c.restitutionBias)),
                             c.inversePenetrationMass)),
                   Zero)
        /\ shallow.vel = step.vel /\ deep.vel = step.vel
        /\ shallow.pens[k].penetrationImpulse = step.pens[k].penetrationImpulse
        /\ deep.pens[k].penetrationImpulse = step.pens[k].penetrationImpulse
        /\ otherSplit.vel = step.vel
        /\ otherSplit.pens[k].penetrationImpulse = step.pens[k].penetrationImpulse
        /\ otherVel.split = step.split
        /\ otherVel.pens[k].penetrationSplitImpulse = step.pens[k].penetrationSplitImpulse
        /\ step.pens[k].penetrationSplitImpulse =
              RMax(RAdd(c.penetrationSplitImpulse,
                        RMul(RNeg(RAdd(PenetrationJv(pre.split, c),
                                       BaumgarteBias(c, BETA_SPLIT_IMPULSE))),
                             c.inversePenetrationMass)),
                   Zero)

\* one pass for constraint k from the sweep state pre, split impulse
\* disabled: the Baumgarte bias enters the velocity solve and the split side
\* is left alone
BiasInVelocitySolve(pre, k) ==
    LET c == pre.pens[k]
        step == SolvePenetrationConstraint(pre, k, mTimeStep, FALSE)
    IN  /\ step.pens[k].penetrationImpulse =
              RMax(RAdd(c.penetrationImpulse,
                        RMul(RNeg(RAdd(PenetrationJv(pre.vel, c),
                                       RAdd(BaumgarteBias(c, BETA), c.restitutionBias))),
                             c.inversePenetrationMass)),
                   Zero)
        /\ step.split = pre.split
        /\ step.pens[k].penetrationSplitImpulse = c.penetrationSplitImpulse

\* C22: with split impulse enabled the velocity solve of the penetration sweep
\* omits the Baumgarte bias and is independent of penetrationDepth, and the
\* split sub-step reads and writes only the split velocity arrays and
\* penetrationSplitImpulse; with split impulse disabled the bias
\* -(beta / dt) * max(0, depth - SLOP) enters the velocity solve and the sweep
\* leaves the split arrays and penetrationSplitImpulse unchanged
C22_SplitImpulseSeparation ==
    [][(/\ lastOp' = "solvePenetrationConstraints" /\ nbCalls' = nbCalls + 1
        /\ pc' = "running" /\ ~Idle)
       => IF mIsSplitImpulseActive
          THEN /\ \A k \in 1..Len(mPenetrationConstraints.elems) :
                     SplitSeparated(PenetrationPrefix(k - 1), k)
               /\ SplitVelocities' =
                     PenetrationPrefix(Len(mPenetrationConstraints.elems)).split
          ELSE /\ \A k \in 1..Len(mPenetrationConstraints.elems) :
                     /\ BiasInVelocitySolve(PenetrationPrefix(k - 1), k)
                     /\ mPenetrationConstraints'.elems[k].penetrationSplitImpulse =
                           mPenetrationConstraints.elems[k].penetrationSplitImpulse
               /\ UNCHANGED <<mSplitLinearVelocities, mSplitAngularVelocities>>]_vars

\* a penetration sweep with split impulse enabled has pushed a contact deeper
\* than SLOP apart on both sides: an impulse on the velocities, a split
\* impulse on the split velocities
C22_Witness ==
    /\ lastOp = "solvePenetrationConstraints" /\ pc = "running"
    /\ mIsSplitImpulseActive
    /\ \E k \in 1..Len(mPenetrationConstraints.elems) :
          LET c == mPenetrationConstraints.elems[k]
          IN  /\ RLt(SLOP, c.penetrationDepth)
              /\ RLt(Zero, c.penetrationImpulse)
              /\ RLt(Zero, c.penetrationSplitImpulse)
              /\ mSplitLinearVelocities.elems[c.indexBody1] # VZero
              /\ mLinearVelocities.elems[c.indexBody1] # prevInit.lin[c.indexBody1]

(***************************************************************************)
(* Warm start of new contacts                                              *)
(***************************************************************************)
\* the constraint records as a contact that is new in this step has them
ColdPenetration(c) == [c EXCEPT !.isRestingContact = FALSE]
ColdFriction(c) == [c EXCEPT !.hasAtLeastOneRestingContactPoint = FALSE]

\* warmStart on a new penetration constraint: impulse zero, velocities as they were
ColdPenetrationStart(vel, c) ==
    LET r == WarmStartPenetration(vel, c)
    IN  /\ r.vel = vel
        /\ r.pc = [c EXCEPT !.penetrationImpulse = Zero]

\* warmStart on a friction constraint without a resting contact point: the
\* four impulses zero, velocities as they were
ColdFrictionStart(vel, c) ==
    LET r == WarmStartFriction(vel, c)
    IN  /\ r.vel = vel
        /\ r.fc = [c EXCEPT !.friction1Impulse = Zero, !.friction2Impulse = Zero,
                            !.frictionTwistImpulse = Zero,
                            !.rollingResistanceImpulse = VZero]

\* C23: warmStart sets penetrationImpulse of a penetration constraint whose
\* isRestingContact is false to 0 and changes no velocity on its account, and
\* sets the four friction impulses of a friction constraint with no resting
\* contact point to zero and changes no velocity on its account
C23_NewContactsCold ==
    [][(nbCalls' = nbCalls + 1 /\ pc' = "running") =>
         /\ \A k \in 1..Len(mPenetrationConstraints'.elems) :
               ColdPenetrationStart(Velocities',
                                    ColdPenetration(mPenetrationConstraints'.elems[k]))
         /\ \A k \in 1..Len(mFrictionConstraints'.elems) :
               ColdFrictionStart(Velocities', ColdFriction(mFrictionConstraints'.elems[k]))
         /\ (lastOp' = "warmStart" /\ ~Idle) =>
               /\ \A k \in 1..Len(mPenetrationConstraints.elems) :
                     ~mPenetrationConstraints.elems[k].isRestingContact =>
                         mPenetrationConstraints'.elems[k] =
                             [mPenetrationConstraints.elems[k] EXCEPT
                                 !.penetrationImpulse = Zero]
               /\ \A k \in 1..Len(mFrictionConstraints.elems) :
                     LET c == mFrictionConstraints.elems[k]
                     IN  ~c.hasAtLeastOneRestingContactPoint =>
                             mFrictionConstraints'.elems[k] =
                                 [c EXCEPT !.friction1Impulse = Zero,
                                           !.friction2Impulse = Zero,
                                           !.frictionTwistImpulse = Zero,
                                           !.rollingResistanceImpulse = VZero]
               /\ (/\ \A k \in 1..Len(mPenetrationConstraints.elems) :
                         ~mPenetrationConstraints.elems[k].isRestingContact
                   /\ \A k \in 1..Len(mFrictionConstraints.elems) :
                         ~mFrictionConstraints.elems[k].hasAtLeastOneRestingContactPoint)
                  => Velocities' = Velocities]_vars

\* warmStart has run on an island with a manifold seen in the step before and
\* a new one: the resting contact carries its impulse, the new contact and
\* its friction constraint are at zero
C23_Witness ==
    /\ lastOp = "warmStart" /\ pc = "running"
    /\ \E k, j \in 1..Len(mPenetrationConstraints.elems) :
          /\ mPenetrationConstraints.elems[k].isRestingContact
          /\ RLt(Zero, mPenetrationConstraints.elems[k].penetrationImpulse)
          /\ ~mPenetrationConstraints.elems[j].isRestingContact
          /\ mPenetrationConstraints.elems[j].penetrationImpulse = Zero
          /\ LET c == mFrictionConstraints.elems[
                          mPenetrationConstraints.elems[j].indexFrictionConstraint + 1]
             IN  /\ ~c.hasAtLeastOneRestingContactPoint
                 /\ c.friction1Impulse = Zero /\ c.rollingResistanceImpulse = VZero

(***************************************************************************)
(* Twist and rolling resistance                                            *)
(***************************************************************************)
\* one pass of the friction sweep for constraint c from the velocities vel:
\* the twist and the rolling resistance step leave the linear velocities as
\* tangent 2 left them, and without a rolling resistance factor the rolling
\* step leaves the impulse and the angular velocities as the twist left them
AngularOnly(vel, c) ==
    LET s2 == SolveFriction2(SolveFriction1(vel, c).vel, SolveFriction1(vel, c).fc)
        s3 == SolveFrictionTwist(s2.vel, s2.fc)
        s4 == SolveRollingResistance(s3.vel, s3.fc)
        noFactor == [s3.fc EXCEPT !.rollingResistanceFactor = Zero]
    IN  /\ s3.vel.lin = s2.vel.lin
        /\ s4.vel.lin = s2.vel.lin
        /\ SolveFrictionConstraint(vel, c) = s4
        /\ ~RLt(Zero, c.rollingResistanceFactor) => s4 = s3
        /\ SolveRollingResistance(s3.vel, noFactor) = [vel |-> s3.vel, fc |-> noFactor]

\* C24: in solveFrictionConstraints the twist and the rolling resistance step
\* apply only angular impulses, so the linear velocities after them are those
\* right after tangent 2, and the rolling step runs only when
\* rollingResistanceFactor > 0
C24_TwistAndRollingAngularOnly ==
    [][(/\ lastOp' = "solveFrictionConstraints" /\ nbCalls' = nbCalls + 1
        /\ pc' = "running" /\ ~Idle)
       => /\ \A k \in 1..Len(mFrictionConstraints.elems) :
                /\ AngularOnly(FrictionPrefix(k - 1).vel, mFrictionConstraints.elems[k])
                /\ ~RLt(Zero, mFrictionConstraints.elems[k].rollingResistanceFactor) =>
                       mFrictionConstraints'.elems[k].rollingResistanceImpulse =
                           mFrictionConstraints.elems[k].rollingResistanceImpulse
          /\ Velocities' = FrictionPrefix(Len(mFrictionConstraints.elems)).vel]_vars

\* a friction sweep has applied a twist impulse and a rolling resistance
\* impulse to a spinning box
C24_Witness ==
    /\ lastOp = "solveFrictionConstraints" /\ pc = "running"
    /\ \E k \in 1..Len(mFrictionConstraints.elems) :
          LET c == mFrictionConstraints.elems[k]
          IN  /\ c.frictionTwistImpulse # Zero
              /\ c.rollingResistanceImpulse # VZero
              /\ RLt(Zero, c.rollingResistanceFactor)
              /\ mAngularVelocities.elems[c.indexBody1] # prevInit.ang[c.indexBody1]

(***************************************************************************)
(* The toggle of the friction path                                         *)
(***************************************************************************)
\* C25: setting mIsSolveFrictionAtContactManifoldCenterActive has no effect:
\* two solvers run on identical inputs through the same sequence of
\* operations, differing only in that toggle, have identical constraint
\* records, velocity arrays and stored impulses
C25_ToggleHasNoEffect ==
    /\ (twin.status = "ok") = (pc = "running")
    /\ twin.pens = mPenetrationConstraints.elems
    /\ twin.frics = mFrictionConstraints.elems
    /\ twin.vel = Velocities
    /\ twin.split = SplitVelocities
    /\ twin.contactPoints = contactPoints
    /\ twin.contactManifolds = contactManifolds

\* the solver with the toggle off and the one with the toggle on have both
\* solved an island and stored a friction impulse and friction vectors
C25_Witness ==
    /\ lastOp = "storeImpulses" /\ pc = "running"
    /\ ~mIsSolveFrictionAtContactManifoldCenterActive
    /\ \E k \in 1..Len(twin.frics) :
          LET m == twin.frics[k].contactManifold
          IN  /\ twin.frics[k].friction1Impulse # Zero
              /\ twin.contactManifolds[m].frictionImpulse1 = twin.frics[k].friction1Impulse
              /\ contactManifolds[m].frictionVector1 # VZero
              /\ contactManifolds[m] = twin.contactManifolds[m]

(***************************************************************************)
(* Accumulated and applied impulses                                        *)
(***************************************************************************)
\* what the linear impulse -P on body 1 and +P on body 2 of the constraint c
\* adds to the linear velocity of the body with index b
BodyLinearImpulse(b, c, P) ==
    VAdd(IF c.indexBody1 = b THEN VScale(VNeg(P), c.massInverseBody1) ELSE VZero,
         IF c.indexBody2 = b THEN VScale(P, c.massInverseBody2) ELSE VZero)

\* what the angular impulses A1 on body 1 and A2 on body 2 of the constraint c
\* add to the angular velocity of the body with index b
BodyAngularImpulse(b, c, A1, A2) ==
    VAdd(IF c.indexBody1 = b THEN MVec(c.inverseInertiaTensorBody1, A1) ELSE VZero,
         IF c.indexBody2 = b THEN MVec(c.inverseInertiaTensorBody2, A2) ELSE VZero)

\* the linear velocity that the normal impulses lambdaAfter - lambdaBefore of
\* the penetration constraints and the tangent impulses tangentAfter -
\* tangentBefore of the friction constraints add to body b
AppliedLinear(b, pens, lambdaBefore, lambdaAfter, frics, tangentBefore, tangentAfter) ==
    VAdd(VSum([k \in 1..Len(pens) |->
                  BodyLinearImpulse(b, pens[k],
                      VScale(pens[k].normal, RSub(lambdaAfter[k], lambdaBefore[k])))]),
         VSum([k \in 1..Len(frics) |->
                  BodyLinearImpulse(b, frics[k],
                      VAdd(VScale(frics[k].frictionVector1,
                                  RSub(tangentAfter[k][1], tangentBefore[k][1])),
                           VScale(frics[k].frictionVector2,
                                  RSub(tangentAfter[k][2], tangentBefore[k][2]))))]))

\* the angular velocity the impulses of a friction sweep add to body b
AppliedFrictionAngular(b, fricBefore, fricAfter) ==
    VSum([k \in 1..Len(fricAfter) |->
        LET c == fricAfter[k]
            d1 == RSub(c.friction1Impulse, fricBefore[k].friction1Impulse)
            d2 == RSub(c.friction2Impulse, fricBefore[k].friction2Impulse)
            twist == VScale(c.normal,
                            RSub(c.frictionTwistImpulse, fricBefore[k].frictionTwistImpulse))
            rolling == VSub(c.rollingResistanceImpulse, fricBefore[k].rollingResistanceImpulse)
        IN  BodyAngularImpulse(b, c,
                VNeg(VAdd(VAdd(VScale(c.r1CrossT1, d1), VScale(c.r1CrossT2, d2)),
                          VAdd(twist, rolling))),
                VAdd(VAdd(VScale(c.r2CrossT1, d1), VScale(c.r2CrossT2, d2)),
                     VAdd(twist, rolling)))])

\* the accumulated normal impulses, split impulses and tangent impulses of
\* the arrays, and the same at zero
NormalImpulses(pens) == [k \in 1..Len(pens) |-> pens[k].penetrationImpulse]
SplitImpulses(pens) == [k \in 1..Len(pens) |-> pens[k].penetrationSplitImpulse]
TangentImpulses(frics) ==
    [k \in 1..Len(frics) |-> <<frics[k].friction1Impulse, frics[k].friction2Impulse>>]
NoNormalImpulses(pens) == [k \in 1..Len(pens) |-> Zero]
NoTangentImpulses(frics) == [k \in 1..Len(frics) |-> <<Zero, Zero>>]

\* C26: from warmStart on, what each constraint has applied to the velocity
\* arrays is what it has accumulated: warmStart applies the normal impulses
\* and the reprojected tangent impulses it leaves in the records, each sweep
\* applies the change of the accumulated impulses (penetrationImpulse on the
\* velocities, penetrationSplitImpulse on the split velocities, friction 1,
\* friction 2 and twist impulse in the friction sweep)
C26_AccumulatedIsApplied ==
    [][(nbCalls' = nbCalls + 1 /\ pc' = "running" /\ ~Idle) =>
         LET pens == mPenetrationConstraints.elems
             frics == mFrictionConstraints.elems
             pensAfter == mPenetrationConstraints'.elems
             fricsAfter == mFrictionConstraints'.elems
         IN
         /\ lastOp' = "warmStart" =>
               \A b \in VelocityIndices :
                   mLinearVelocities'.elems[b] =
                       VAdd(mLinearVelocities.elems[b],
                            AppliedLinear(b, pens, NoNormalImpulses(pens),
                                          NormalImpulses(pensAfter),
                                          fricsAfter, NoTangentImpulses(frics),
                                          TangentImpulses(fricsAfter)))
         /\ lastOp' = "solvePenetrationConstraints" =>
               \A b \in VelocityIndices :
                   /\ mLinearVelocities'.elems[b] =
                         VAdd(mLinearVelocities.elems[b],
                              AppliedLinear(b, pens, NormalImpulses(pens),
                                            NormalImpulses(pensAfter),
                                            frics, TangentImpulses(frics),
                                            TangentImpulses(fricsAfter)))
                   /\ mSplitLinearVelocities'.elems[b] =
                         VAdd(mSplitLinearVelocities.elems[b],
                              AppliedLinear(b, pens, SplitImpulses(pens),
                                            SplitImpulses(pensAfter),
                                            frics, TangentImpulses(frics),
                                            TangentImpulses(fricsAfter)))
         /\ lastOp' = "solveFrictionConstraints" =>
               \A b \in VelocityIndices :
                   /\ mLinearVelocities'.elems[b] =
                         VAdd(mLinearVelocities.elems[b],
                              AppliedLinear(b, pens, NormalImpulses(pens),
                                            NormalImpulses(pensAfter),
                                            frics, TangentImpulses(frics),
                                            TangentImpulses(fricsAfter)))
                   /\ mAngularVelocities'.elems[b] =
                         VAdd(mAngularVelocities.elems[b],
                              AppliedFrictionAngular(b, frics, fricsAfter))]_vars

\* the penetration sweep of the second step on a single resting contact has
\* ended: the contact was warm started with the cached impulse, the sweep
\* changed it, and the linear velocity of the body differs from the one
\* initializeForIsland read by the accumulated normal and tangent impulses
C26_Witness ==
    /\ lastOp = "solvePenetrationConstraints" /\ pc = "running" /\ nbCalls = 11
    /\ Len(mPenetrationConstraints.elems) = 1
    /\ LET c == mPenetrationConstraints.elems[1]
           f == mFrictionConstraints.elems[1]
       IN  /\ c.isRestingContact
           /\ RLt(Zero, contactPoints[c.contactPoint].penetrationImpulse)
           /\ c.penetrationImpulse # contactPoints[c.contactPoint].penetrationImpulse
           /\ RLt(Zero, c.penetrationImpulse)
           /\ f.friction1Impulse # Zero
           /\ c.massInverseBody1 # Zero
           /\ mLinearVelocities.elems[c.indexBody1] =
                 VAdd(prevInit.lin[c.indexBody1],
                      VScale(VNeg(VAdd(VScale(c.normal, c.penetrationImpulse),
                                       VAdd(VScale(f.frictionVector1, f.friction1Impulse),
                                            VScale(f.frictionVector2, f.friction2Impulse)))),
                             c.massInverseBody1))

(***************************************************************************)
(* Array bounds of initializeForIsland                                     *)
(***************************************************************************)
\* the number of contact points of the manifolds of an island
RECURSIVE NbContactPoints(_)
NbContactPoints(ms) ==
    IF ms = <<>> THEN 0 ELSE Len(ManifoldPoints(Head(ms))) + NbContactPoints(Tail(ms))

\* C27: for every island that passes the assertions of initializeForIsland,
\* mNbFrictionConstraints never exceeds mNbContactManifolds and
\* mNbPenetrationConstraints never exceeds the allocated
\* 4 * mNbContactManifolds, so that every write is inside the allocated
\* arrays whatever the number of contact points per manifold; on return the
\* counters are the number of manifolds and the total number of contact points
C27_InitializeWithinBounds ==
    (lastOp = "initializeForIsland" /\ pc # "aborted") =>
        /\ mNbFrictionConstraints <= mNbContactManifolds
        /\ mNbPenetrationConstraints <= PenetrationCapacity(mNbContactManifolds)
        /\ pc \notin {"crashed", "corrupted"}
        /\ mNbFrictionConstraints = Len(Island(initCall.island).contactManifolds)
        /\ mNbPenetrationConstraints =
              NbContactPoints(Island(initCall.island).contactManifolds)

(***************************************************************************)
(* The resting flag of the contact points                                  *)
(***************************************************************************)
\* C28: initializeForIsland copies the isResting flag of each contact point
\* into its constraint before it sets the flag, and no operation of the solver
\* clears it: a contact point is new in the first step in which the solver
\* sees it and resting in every later one, and
\* hasAtLeastOneRestingContactPoint of a friction constraint is the OR of the
\* flags read in that step
C28_RestingFlagProtocol ==
    [][(nbCalls' = nbCalls + 1) =>
         /\ \A c \in ContactPointIds :
               contactPoints[c].isRestingContact => contactPoints'[c].isRestingContact
         /\ (lastOp' = "initializeForIsland" /\ pc' = "running") =>
               LET pens == mPenetrationConstraints'.elems
                   frics == mFrictionConstraints'.elems
               IN  /\ \A k \in 1..Len(pens) :
                         /\ pens[k].isRestingContact =
                               contactPoints[pens[k].contactPoint].isRestingContact
                         /\ contactPoints'[pens[k].contactPoint].isRestingContact
                   /\ \A f \in 1..Len(frics) :
                         frics[f].hasAtLeastOneRestingContactPoint =
                             \E k \in 1..Len(pens) :
                                 /\ pens[k].indexFrictionConstraint = f - 1
                                 /\ contactPoints[pens[k].contactPoint].isRestingContact
                   /\ \A c \in ContactPointIds :
                         (\A k \in 1..Len(pens) : pens[k].contactPoint # c) =>
                             contactPoints'[c] = contactPoints[c]]_vars

\* the second step has been initialized on an island with the manifold of the
\* first step and a new one: the contacts of the first are resting, the
\* contact of the second is new, and all of them are flagged for the next step
C28_Witness ==
    /\ lastOp = "initializeForIsland" /\ pc = "running" /\ nbCalls = 8
    /\ LET pens == mPenetrationConstraints.elems
           frics == mFrictionConstraints.elems
       IN  /\ \E k, j \in 1..Len(pens) :
                 /\ pens[k].isRestingContact
                 /\ frics[pens[k].indexFrictionConstraint + 1].hasAtLeastOneRestingContactPoint
                 /\ ~pens[j].isRestingContact
                 /\ ~frics[pens[j].indexFrictionConstraint + 1].hasAtLeastOneRestingContactPoint
           /\ \A k \in 1..Len(pens) : contactPoints[pens[k].contactPoint].isRestingContact

(***************************************************************************)
(* Warm starting disabled                                                  *)
(***************************************************************************)
\* C29: with warm starting disabled before initializeForIsland, the warmStart
\* call that follows leaves the four velocity arrays unchanged for every
\* constraint, resting or new, and every accumulated impulse at zero,
\* whatever the contact points and manifolds have cached
C29_WarmStartDisabled ==
    [][(/\ lastOp = "initializeForIsland" /\ ~mIsWarmStartingActive
        /\ lastOp' = "warmStart" /\ nbCalls' = nbCalls + 1 /\ pc' = "running")
       => /\ UNCHANGED <<mLinearVelocities, mAngularVelocities,
                         mSplitLinearVelocities, mSplitAngularVelocities>>
          /\ \A k \in 1..Len(mPenetrationConstraints'.elems) :
                /\ mPenetrationConstraints'.elems[k].penetrationImpulse = Zero
                /\ mPenetrationConstraints'.elems[k].penetrationSplitImpulse = Zero
          /\ \A k \in 1..Len(mFrictionConstraints'.elems) :
                /\ mFrictionConstraints'.elems[k].friction1Impulse = Zero
                /\ mFrictionConstraints'.elems[k].friction2Impulse = Zero
                /\ mFrictionConstraints'.elems[k].frictionTwistImpulse = Zero
                /\ mFrictionConstraints'.elems[k].rollingResistanceImpulse = VZero]_vars

\* warmStart has run in the second step with warm starting disabled: the
\* contact is resting, the contact point and its manifold hold the impulses
\* of the first step, and the velocities are those initializeForIsland read
C29_Witness ==
    /\ lastOp = "warmStart" /\ pc = "running" /\ nbCalls = 9
    /\ ~mIsWarmStartingActive
    /\ Velocities = InitialVelocities
    /\ \E k \in 1..Len(mPenetrationConstraints.elems) :
          LET c == mPenetrationConstraints.elems[k]
              f == mFrictionConstraints.elems[c.indexFrictionConstraint + 1]
          IN  /\ c.isRestingContact /\ f.hasAtLeastOneRestingContactPoint
              /\ RLt(Zero, contactPoints[c.contactPoint].penetrationImpulse)
              /\ contactManifolds[f.contactManifold].frictionImpulse1 # Zero
              /\ c.penetrationImpulse = Zero /\ f.friction1Impulse = Zero

(***************************************************************************)
(* What each sweep writes                                                  *)
(***************************************************************************)
\* a constraint record without its accumulated impulses: what
\* initializeForIsland computed
PrecomputedPenetration(c) ==
    [c EXCEPT !.penetrationImpulse = Zero, !.penetrationSplitImpulse = Zero]
PrecomputedFriction(c) ==
    [c EXCEPT !.friction1Impulse = Zero, !.friction2Impulse = Zero,
              !.frictionTwistImpulse = Zero, !.rollingResistanceImpulse = VZero,
              !.totalPenetrationImpulse = Zero]

\* the velocity indices no constraint of the island refers to
UnconstrainedIndices ==
    { b \in VelocityIndices :
        /\ \A k \in 1..Len(mPenetrationConstraints.elems) :
              b \notin {mPenetrationConstraints.elems[k].indexBody1,
                        mPenetrationConstraints.elems[k].indexBody2}
        /\ \A k \in 1..Len(mFrictionConstraints.elems) :
              b \notin {mFrictionConstraints.elems[k].indexBody1,
                        mFrictionConstraints.elems[k].indexBody2} }

\* what neither sweep writes: the precomputed part of every record and the
\* velocities of the bodies outside every constraint
OutsideBothSweeps ==
    /\ Len(mPenetrationConstraints'.elems) = Len(mPenetrationConstraints.elems)
    /\ Len(mFrictionConstraints'.elems) = Len(mFrictionConstraints.elems)
    /\ \A k \in 1..Len(mPenetrationConstraints.elems) :
          PrecomputedPenetration(mPenetrationConstraints'.elems[k])
              = PrecomputedPenetration(mPenetrationConstraints.elems[k])
    /\ \A k \in 1..Len(mFrictionConstraints.elems) :
          PrecomputedFriction(mFrictionConstraints'.elems[k])
              = PrecomputedFriction(mFrictionConstraints.elems[k])
    /\ \A b \in UnconstrainedIndices :
          /\ mLinearVelocities'.elems[b] = mLinearVelocities.elems[b]
          /\ mAngularVelocities'.elems[b] = mAngularVelocities.elems[b]
          /\ mSplitLinearVelocities'.elems[b] = mSplitLinearVelocities.elems[b]
          /\ mSplitAngularVelocities'.elems[b] = mSplitAngularVelocities.elems[b]

\* what the friction sweep leaves to the penetration sweep
OutsideFrictionSweep ==
    /\ UNCHANGED <<mSplitLinearVelocities, mSplitAngularVelocities>>
    /\ \A k \in 1..Len(mPenetrationConstraints.elems) :
          /\ mPenetrationConstraints'.elems[k].penetrationImpulse
                = mPenetrationConstraints.elems[k].penetrationImpulse
          /\ mPenetrationConstraints'.elems[k].penetrationSplitImpulse
                = mPenetrationConstraints.elems[k].penetrationSplitImpulse
    /\ \A k \in 1..Len(mFrictionConstraints.elems) :
          mFrictionConstraints'.elems[k].totalPenetrationImpulse
              = mFrictionConstraints.elems[k].totalPenetrationImpulse

\* what the penetration sweep leaves to the friction sweep
OutsidePenetrationSweep ==
    \A k \in 1..Len(mFrictionConstraints.elems) :
        /\ mFrictionConstraints'.elems[k].friction1Impulse
              = mFrictionConstraints.elems[k].friction1Impulse
        /\ mFrictionConstraints'.elems[k].friction2Impulse
              = mFrictionConstraints.elems[k].friction2Impulse
        /\ mFrictionConstraints'.elems[k].frictionTwistImpulse
              = mFrictionConstraints.elems[k].frictionTwistImpulse
        /\ mFrictionConstraints'.elems[k].rollingResistanceImpulse
              = mFrictionConstraints.elems[k].rollingResistanceImpulse

\* C30: solveFrictionConstraints leaves every penetrationImpulse,
\* penetrationSplitImpulse, totalPenetrationImpulse and both split velocity
\* arrays unchanged; solvePenetrationConstraints leaves the four friction
\* impulses unchanged; neither changes what initializeForIsland precomputed
\* nor the velocities of a body that belongs to no constraint
C30_SweepFrames ==
    [][(nbCalls' = nbCalls + 1 /\ pc = "running" /\ pc' = "running")
       => /\ lastOp' = "solveFrictionConstraints"
                => OutsideFrictionSweep /\ OutsideBothSweeps
          /\ lastOp' = "solvePenetrationConstraints"
                => OutsidePenetrationSweep /\ OutsideBothSweeps]_vars

\* the first friction sweep has run: contacts carry normal
\* and split impulses, the friction constraint a tangent and a twist or
\* rolling impulse, a constrained body has changed velocity, and a body with a
\* non-zero velocity is outside every constraint
C30_Witness ==
    /\ lastOp = "solveFrictionConstraints" /\ pc = "running" /\ nbCalls = 5
    /\ Velocities # InitialVelocities
    /\ \E b \in UnconstrainedIndices : mLinearVelocities.elems[b] # VZero
    /\ \E k \in 1..Len(mPenetrationConstraints.elems) :
          LET c == mPenetrationConstraints.elems[k]
              f == mFrictionConstraints.elems[c.indexFrictionConstraint + 1]
          IN  /\ RLt(Zero, c.penetrationImpulse)
              /\ RLt(Zero, c.penetrationSplitImpulse)
              /\ RLt(Zero, f.totalPenetrationImpulse)
              /\ f.friction1Impulse # Zero
              /\ f.rollingResistanceImpulse # VZero

====
